---- MODULE Spec2Model ----
(***************************************************************************)
(* ABS, a C++ build orchestrator (zachwolfe/abs).  The module models       *)
(*   - the edit-time oracle and the up-to-date predicate  (src/build.rs)   *)
(*   - one project build: compile_directory, link, package (src/build.rs)  *)
(*   - the task model: Task, TaskExt::run, CxxTask         (src/task.rs)   *)
(*   - project graph resolution: accumulate_dependencies   (src/main.rs)   *)
(*   - the command line of cl.exe: CompileFlags (src/build_manager.rs)     *)
(*   - one compile: run_cmd, the output parser of compile_cxx and the      *)
(*     consumer of run_guaranteed  (src/build_manager.rs, src/task.rs)     *)
(* Each part has its own specification over its own group of variables;    *)
(* the variables of the other parts stay at their idle values.             *)
(***************************************************************************)
EXTENDS Integers, Sequences, FiniteSets, TLC

VARIABLES
    fs,               \* the file system: path -> last write time, or NoFile
    file_edit_times,  \* BuildEnvironment.file_edit_times: the edit-time cache
    predArgs,         \* PredSpec: the arguments of the call
    lastCall,         \* PredSpec: the should_build_artifacts_impl call made
    answered,         \* OracleSpec: what edit_time first answered per path
    pc,               \* Spec: where BuildEnvironment::build stands
    src_idx,          \* Spec: compile_directory's position in paths.src_paths
    obj_paths,        \* Spec: the obj_paths vector of build
    toolLog,          \* Spec: the tools this build has invoked, in order
    result,           \* Spec: how the last build ended
    touched,          \* Spec: the inputs written since the last build ended
    ctx,              \* Spec: what held when the running build started
    assets,           \* Spec: what is found under the name assets
    src_dir,          \* Spec: what fs::read_dir gives for the src tree
    package_file_paths, \* Spec: the files build hands to copy_to_package_dir
    artifact_map,        \* PathSpec: two sources and the artifact paths of each
    task,             \* TaskSpec: the task that is run
    taskPc,           \* TaskSpec: where TaskExt::run stands
    prev,             \* TaskSpec: what previous_valid_run returned in this run
    guaranteed,       \* TaskSpec: what run_guaranteed returned in this run
    rgCalls,          \* TaskSpec: the calls of run_guaranteed in this run
    runResult,        \* TaskSpec: what run returned
    taskCtx,          \* TaskSpec: what held when the run started
    descriptor,       \* TaskSpec: whether each dependency descriptor parses
    manifests,        \* GraphSpec: the abs.json of each project directory
    projects,         \* GraphSpec: the projects map of main, by project name
    stack,            \* GraphSpec: the active calls of accumulate_dependencies
    phase,            \* GraphSpec: where main's build subcommand stands
    fatal,            \* GraphSpec: the fail_immediate that ended the process
    built,            \* GraphSpec: the projects build_all has built, in order
    link_libraries,   \* GraphSpec: the link_libraries vector of build_all
    produced_artifact, \* GraphSpec: the dependencies whose build gave a path
    cmd,              \* GraphSpec: the subcommand, its --target, and the host
    plan,             \* GraphSpec: the targets main still has to build
    unique_compiler_output, \* OutputSpec: the first lines printed so far
    warning_cache,    \* OutputSpec: the WarningCache of the running compile
    displayed,        \* OutputSpec: the chunks printed, in order
    received,         \* OutputSpec: the outputs taken from the channels
    consumer,         \* OutputSpec: where the consumer of each task stands
    compile_flags,    \* FlagSpec: the flags vector of a CompileFlags
    command_line,     \* FlagSpec: what CompileFlags::build returned
    process,          \* PipeSpec: cl.exe: the lines it writes, its exit
    readers,          \* PipeSpec: the stdout and stderr reader tasks
    line_channel,     \* PipeSpec: the OutputLine channel of compile_cxx
    parser,           \* PipeSpec: the parser task of compile_cxx
    output_channel,   \* PipeSpec: the CompilerOutput channel to the consumer
    run,              \* PipeSpec: where run_cmd and run_guaranteed stand
    fed,              \* PipeSpec: the lines the readers have sent
    emitted           \* PipeSpec: the outputs the parser has sent

(***************************************************************************)
(* Bounds of the model.                                                    *)
(***************************************************************************)
MaxTime == 2
MaxTouched == 1
MaxOutputs == 3

\* fs[path] of a path that does not exist (fs::metadata gives NotFound)
NoFile == 0 - 1
\* fs[path] of a path whose fs::metadata fails with another error than
\* NotFound (access denied, say)
IoError == 0 - 2
\* u64::MAX, the fallback of a dependency: above every time stamp of the model
\* (TLC's integers have 32 bits)
U64Max == 2^30

Max(S) == CHOOSE x \in S : \A y \in S : y <= x
Min(S) == CHOOSE x \in S : \A y \in S : x <= y
Range(s) == {s[i] : i \in 1..Len(s)}
EmptyMap == [p \in {} |-> 0]

(***************************************************************************)
(* Time stamps.  The build only compares last-write times, so the model    *)
(* keeps them up to their order: a write stamps the file later than every  *)
(* file on disk (the clock has moved on since), and the stamps on disk and *)
(* in the cache are then renumbered 1, 2, ... in the same order.           *)
(***************************************************************************)
IsStamp(v) == v # NoFile /\ v # IoError /\ v # 0 /\ v # U64Max
Stamps(files, cache) ==
    {v \in {files[p] : p \in DOMAIN files} \cup {cache[p] : p \in DOMAIN cache} :
        IsStamp(v)}
Later(files) == Max({0} \cup Stamps(files, EmptyMap)) + 1
Rank(v, S) == IF IsStamp(v) THEN Cardinality({w \in S : w <= v}) ELSE v
Renumber(files, cache) ==
    LET S == Stamps(files, cache)
    IN [fs |-> [p \in DOMAIN files |-> Rank(files[p], S)],
        cache |-> [p \in DOMAIN cache |-> Rank(cache[p], S)]]

(***************************************************************************)
(* The edit-time oracle: BuildEnvironment::edit_time.                      *)
(***************************************************************************)
\* mutant of edit_time: the cache is not looked up
edit_time_afresh(cache, files, path, fallback) ==
    IF files[path] = IoError
    THEN [cache |-> cache, err |-> TRUE]
    ELSE LET time == IF files[path] = NoFile THEN fallback ELSE files[path]
         IN [cache |-> [p \in DOMAIN cache \cup {path} |->
                          IF p = path THEN time ELSE cache[p]],
             time |-> time, err |-> FALSE]
\* mutant of edit_time: an error is answered with the fallback
edit_time_lenient(cache, files, path, fallback) ==
    IF path \in DOMAIN cache
    THEN [cache |-> cache, time |-> cache[path], err |-> FALSE]
    ELSE LET time == IF files[path] \in {NoFile, IoError}
                     THEN fallback ELSE files[path]
         IN [cache |-> cache @@ (path :> time), time |-> time, err |-> FALSE]
\* Ok(time) with the cache after the call, or Err (err) with the cache as it
\* was
edit_time(cache, files, path, fallback) ==
    IF path \in DOMAIN cache
    THEN [cache |-> cache, time |-> cache[path], err |-> FALSE]
    ELSE IF files[path] = IoError
    THEN [cache |-> cache, err |-> TRUE]
    ELSE LET time == IF files[path] = NoFile THEN fallback ELSE files[path]
         IN [cache |-> cache @@ (path :> time), time |-> time, err |-> FALSE]

\* the one element of a singleton: The({e(x) : x \in {v}}) is e(v), with v
\* evaluated once
The(S) == CHOOSE x \in S : TRUE

\* paths.map(|path| self.edit_time(path, fallback)).collect(), cache
\* threaded: collecting into a Result stops at the first Err
RECURSIVE edit_times(_, _, _, _)
edit_times(cache, files, paths, fallback) ==
    IF paths = <<>>
    THEN [cache |-> cache, times |-> <<>>, err |-> FALSE]
    ELSE The({IF r.err
              THEN [cache |-> r.cache, times |-> <<>>, err |-> TRUE]
              ELSE The({[cache |-> rest.cache,
                         times |-> <<r.time>> \o rest.times,
                         err |-> rest.err] :
                          rest \in {edit_times(r.cache, files, Tail(paths),
                                               fallback)}}) :
                r \in {edit_time(cache, files, Head(paths), fallback)}})

\* iterator.max().unwrap_or(0) and iterator.min().unwrap_or(0)
max_or_0(times) == IF times = <<>> THEN 0 ELSE Max(Range(times))
min_or_0(times) == IF times = <<>> THEN 0 ELSE Min(Range(times))

\* mutant of newer: a non-strict comparison
newer_or_equal(newest_dependency, oldest_artifact) ==
    newest_dependency >= oldest_artifact
\* let should_build_artifacts = newest_dependency > oldest_artifact;
newer(newest_dependency, oldest_artifact) ==
    newest_dependency > oldest_artifact

\* the whole cache is invalidated
forget_everything(cache, artifact_paths) == EmptyMap
\* mutant of forget: nothing is invalidated
forget_nothing(cache, artifact_paths) == cache
\* for artifact in artifact_paths { self.file_edit_times.remove(artifact) }
forget(cache, artifact_paths) ==
    [p \in (DOMAIN cache) \ Range(artifact_paths) |-> cache[p]]

\* artifact_paths.filter(|path| filter(path)); the filter is the set it accepts
RECURSIVE filtered(_, _)
filtered(paths, filter) ==
    IF paths = <<>> THEN <<>>
    ELSE (IF Head(paths) \in filter THEN <<Head(paths)>> ELSE <<>>)
         \o filtered(Tail(paths), filter)

(***************************************************************************)
(* The up-to-date predicate: BuildEnvironment::should_build_artifacts_impl.*)
(* Returns the answer and the cache after the call; err stands for the     *)
(* Err of an edit_time that the ? operator hands on.                       *)
(***************************************************************************)
should_build_artifacts_impl(cache, files, dependency_paths, artifact_paths, filter) ==
    The({IF dependencies.err
         THEN [should_build |-> FALSE, cache |-> dependencies.cache,
               err |-> TRUE]
         ELSE The({IF artifacts.err
                   THEN [should_build |-> FALSE, cache |-> artifacts.cache,
                         err |-> TRUE]
                   ELSE LET newest_dependency == max_or_0(dependencies.times)
                            oldest_artifact == min_or_0(artifacts.times)
                            should_build_artifacts ==
                                newer(newest_dependency, oldest_artifact)
                        IN [should_build |-> should_build_artifacts,
                            cache |-> IF should_build_artifacts
                                      THEN forget(artifacts.cache,
                                                  artifact_paths)
                                      ELSE artifacts.cache,
                            err |-> FALSE] :
                     artifacts \in
                       {edit_times(dependencies.cache, files,
                                   filtered(artifact_paths, filter), 0)}}) :
           dependencies \in
             {edit_times(cache, files, dependency_paths, U64Max)}})

\* BuildEnvironment::should_build_artifact: one artifact, the filter accepts all
should_build_artifact(cache, files, dependency_paths, artifact_path) ==
    should_build_artifacts_impl(cache, files, dependency_paths,
                                <<artifact_path>>, {artifact_path})

(***************************************************************************)
(* Paths.  A path is its directory, its file stem and its extension, which *)
(* is what get_artifact_path works on.                                     *)
(***************************************************************************)
Path(dir, stem, ext) == [dir |-> dir, stem |-> stem, ext |-> ext]

src_dir_path == "src"
objs_path == "obj"

\* a directory of sources below src
sub_dir_path == "src/sub"
\* Path::strip_prefix(&self.src_dir_path), on the directory of a source
strip_prefix(dir) == IF dir = src_dir_path THEN "" ELSE "sub"
\* PathBuf::push
push(path, relative) == IF relative = "" THEN path ELSE path \o "/" \o relative

\* BuildEnvironment::get_artifact_path: strip the src prefix, push the rest
\* onto the output directory, set the extension (the extension of the
\* source is replaced)
get_artifact_path(src_path, output_dir_path, extension) ==
    Path(push(output_dir_path, strip_prefix(src_path.dir)), src_path.stem,
         extension)

(***************************************************************************)
(* The project that is built: what SrcPaths::from_root finds (the sources  *)
(* in directory order and the headers), the resolved link libraries, the   *)
(* manifest.  It is no WinUI application; src/pch.cpp exists in some       *)
(* workspaces only.                                                        *)
(***************************************************************************)
SrcA == Path(src_dir_path, "a", "cpp")
SrcB == Path(src_dir_path, "b", "cpp")
SrcPch == Path(src_dir_path, "pch", "cpp")
PchH == Path(src_dir_path, "pch", "h")
HdrH == Path(src_dir_path, "h", "h")
src_paths == <<SrcA, SrcB, SrcPch>>
\* SrcPaths::from_root: the sources that are found in src, in directory order
from_root(files) ==
    LET found(path) == files[path] # NoFile
    IN SelectSeq(src_paths, found)
\* the /Fp file of a compile that generates or uses the precompiled header
gen_pch_path == get_artifact_path(PchH, objs_path, "pch")
\* the headers that from_root finds in src: pch.h in the workspaces that have
\* pch.cpp, h.h in the others
header_paths ==
    LET found(path) == fs[path] # NoFile
    IN SelectSeq(<<HdrH, PchH>>, found)
linker_lib_dependencies == <<Path("lib", "user32", "lib")>>
ManifestPath == Path(".", "abs", "json")
exe_path == Path("abs", "hello", "exe")
\* what each source includes: a.cpp includes h.h, b.cpp includes nothing
Includes(src) == IF src = SrcA THEN {HdrH} ELSE {}

InputPaths == Range(src_paths) \cup {HdrH, PchH}
                \cup Range(linker_lib_dependencies) \cup {ManifestPath}
ObjPaths == {get_artifact_path(s, objs_path, "obj") : s \in Range(src_paths)}
BuildPaths == InputPaths \cup ObjPaths \cup {gen_pch_path, exe_path}

\* build's pch: some source that was found has the file name pch.cpp
has_no_pch(paths) == FALSE

has_pch(paths) ==
    \E i \in 1..Len(paths) : paths[i].stem = "pch" /\ paths[i].ext = "cpp"

\* mutant of is_pch: no source is the root pch.cpp
is_never_pch(path) == FALSE
is_pch(path) == path.stem = "pch" /\ path.ext = "cpp" /\ path.dir = src_dir_path

\* mutant of compile: the object file is not written where the build looks
compile_elsewhere(files, time, path) == files
\* BuildEnvironment::compile, when cl.exe succeeds: /Fo<obj> is written
compile(files, time, path) ==
    [files EXCEPT ![get_artifact_path(path, objs_path, "obj")] = time]

\* BuildEnvironment::compile with PchOption::GeneratePch, when cl.exe
\* succeeds: /Fo<obj> and /Fp<pch> are written
generate_pch(files, time, path) ==
    [compile(files, time, path) EXCEPT ![gen_pch_path] = time]

\* BuildEnvironment::link, when link.exe succeeds: /out:<exe> is written
link(files, time, output_path) == [files EXCEPT ![output_path] = time]

\* dependencies.clone().file(path).build() in compile_directory
compile_dependencies(path) == header_paths \o <<path>>

\* the tools a build runs: cl.exe and link.exe, where ok is whether the tool
\* exited with status 0, and taskkill /F /IM <image>
Cl(path) == [tool |-> "cl", path |-> path, ok |-> TRUE]
Link(path) == [tool |-> "link", path |-> path, ok |-> TRUE]
Failed(invocation) == [invocation EXCEPT !.ok = FALSE]
\* kill_process(path): taskkill is run once; the status it returns goes back
\* to the caller, and build() drops it
kill_process(path) == [tool |-> "taskkill", path |-> path]
kill_debugger == kill_process(Path("", "devenv", "exe"))
\* artifact_path.join(format!("{}.pdb", self.config.name)), and assets
pdb_path == Path(exe_path.dir, exe_path.stem, "pdb")
assets_dir_path == Path(".", "assets", "")
\* fs::metadata(&self.assets_dir_path): an error when nothing has the name
metadata(entry) ==
    [ok |-> entry # "NotFound", is_dir |-> entry = "Dir"]
\* format!("{}.exe", self.config.name)
exe_name == Path("", exe_path.stem, "exe")

(***************************************************************************)
(* Spec: builds of the project, one after the other, with the user writing *)
(* input files between two builds.                                         *)
(***************************************************************************)
NoCall == [called |-> FALSE, cacheBefore |-> EmptyMap, result |-> FALSE]
NoPath == Path("", "", "")
\* Result<PathBuf, BuildError>
Ok(path) == [ok |-> TRUE, path |-> path, err |-> ""]
Err(error) == [ok |-> FALSE, path |-> NoPath, err |-> error]
NoResult == Err("none")
NoTaskCtx == [descriptor |-> "none", some |-> FALSE, should_build |-> FALSE]
NoTask == [kind |-> "none", path |-> NoPath, pch |-> "NoPch"]

\* the variables of the task model while no task is run
TaskIdle ==
    /\ task = NoTask
    /\ taskPc = "idle"
    /\ prev = NoResult
    /\ guaranteed = NoResult
    /\ rgCalls = 0
    /\ runResult = NoResult
    /\ taskCtx = NoTaskCtx
    /\ descriptor = EmptyMap

\* the variables of graph resolution while no build subcommand runs
GraphIdle ==
    /\ manifests = EmptyMap
    /\ projects = EmptyMap
    /\ stack = <<>>
    /\ phase = "idle"
    /\ fatal = ""
    /\ built = <<>>
    /\ link_libraries = <<>>
    /\ produced_artifact = {}
    /\ cmd = [sub_command |-> "none", target |-> "host", host |-> "Win64"]
    /\ plan = [targets |-> <<>>, link_libraries |-> <<>>]
\* the variables of the compiler output while no compile runs
\* no command line has been realised
NotBuilt == [built |-> FALSE]
\* no source has been mapped to its artifact paths
NoArtifacts == [mapped |-> FALSE]
\* the variables of the command line while no flags are realised, and of
\* the artifact paths while no source is mapped
FlagIdle ==
    /\ compile_flags = <<>>
    /\ command_line = NotBuilt
    /\ artifact_map = NoArtifacts
CompileTasks == {1, 2}
\* a consumer between two turns of its loop, at rx.recv().await
Receiving == [pc |-> "recv"]
\* the variables of a compile while no cl.exe has been spawned
PipeIdle ==
    /\ process = [stdout |-> <<>>, stderr |-> <<>>, exited |-> FALSE,
                  success |-> FALSE]
    /\ readers = [stdout |-> 0, stderr |-> 0,
                  stdout_done |-> FALSE, stderr_done |-> FALSE]
    /\ line_channel = <<>>
    /\ parser = [state |-> "NoFileName", chunk |-> <<>>, at |-> "running"]
    /\ output_channel = <<>>
    /\ run = [debug_assertions |-> FALSE, run_cmd |-> "running",
              handle |-> "running", returned |-> FALSE, file |-> <<>>]
    /\ fed = <<>>
    /\ emitted = <<>>
OutputIdle ==
    /\ unique_compiler_output = {}
    /\ warning_cache = [t \in CompileTasks |-> <<>>]
    /\ displayed = <<>>
    /\ received = <<>>
    /\ consumer = [t \in CompileTasks |-> Receiving]
    /\ PipeIdle
NoCtx == [prevOk |-> FALSE, touched |-> {}, newer |-> {}]

BuildInit ==
    /\ \E pch \in BOOLEAN :
          /\ fs = [p \in BuildPaths |->
                    IF p \in InputPaths
                         /\ p \notin (IF pch THEN {HdrH} ELSE {SrcPch, PchH})
                    THEN 1 ELSE NoFile]
          /\ assets \in IF pch THEN {"Dir"} ELSE {"Dir", "File", "NotFound"}
    /\ src_dir = "Ok"
    /\ package_file_paths = <<>>
    /\ file_edit_times = EmptyMap
    /\ pc = "idle"
    /\ src_idx = 1
    /\ obj_paths = <<>>
    /\ toolLog = <<>>
    /\ result = "none"
    /\ touched = {}
    /\ ctx = NoCtx
    /\ predArgs = [deps |-> <<>>, arts |-> <<>>, filter |-> {}]
    /\ lastCall = NoCall
    /\ answered = EmptyMap
    /\ TaskIdle
    /\ GraphIdle
    /\ OutputIdle
    /\ FlagIdle

\* main's build(): BuildEnvironment::new (an empty cache), then build() up to
\* the scan of src
StartBuild ==
    /\ pc = "idle"
    /\ src_dir = "Ok"
    /\ package_file_paths' = <<>>
    /\ pc' = IF has_pch(from_root(fs)) THEN "pch" ELSE "compile"
    /\ file_edit_times' = EmptyMap
    /\ src_idx' = 1
    /\ obj_paths' = <<>>
    /\ toolLog' = <<>>
    /\ result' = "running"
    /\ ctx' = [prevOk |-> result = "Ok", touched |-> touched,
               newer |-> {s \in Range(src_paths) :
                            fs[s] > fs[get_artifact_path(s, objs_path, "obj")]}]
    /\ touched' = {}
    /\ UNCHANGED <<fs, assets, src_dir>>

\* mutant of scan_error: every failure of the scan is reported alike
scan_error_alike(kind) == "CantReadSrcDirectory"
\* if let io::ErrorKind::NotFound = error.kind()
scan_error(kind) ==
    IF kind = "NotFound" THEN "NoSrcDirectory" ELSE "CantReadSrcDirectory"

\* main's build() when SrcPaths::from_root returns an error: build()
\* returns before anything else is done
ScanFail ==
    /\ pc = "idle"
    /\ src_dir # "Ok"
    /\ result' = scan_error(src_dir)
    /\ file_edit_times' = EmptyMap
    /\ src_idx' = 1
    /\ obj_paths' = <<>>
    /\ toolLog' = <<>>
    /\ package_file_paths' = <<>>
    /\ ctx' = [prevOk |-> result = "Ok", touched |-> touched,
               newer |-> {s \in Range(src_paths) :
                            fs[s] > fs[get_artifact_path(s, objs_path, "obj")]}]
    /\ touched' = {}
    /\ UNCHANGED <<fs, pc, assets, src_dir>>

\* build()'s pch step: the precompiled header is generated when pch.cpp or a
\* header is newer than it
PchCheck ==
    should_build_artifact(file_edit_times, fs, <<SrcPch>> \o header_paths,
                          get_artifact_path(SrcPch, objs_path, "pch"))

PchSkip ==
    /\ pc = "pch"
    /\ ~PchCheck.should_build
    /\ file_edit_times' = PchCheck.cache
    /\ pc' = "compile"
    /\ UNCHANGED <<fs, src_idx, obj_paths, toolLog, result, touched, ctx, assets, src_dir, package_file_paths>>

PchOk ==
    /\ pc = "pch"
    /\ PchCheck.should_build
    /\ toolLog' = Append(toolLog, Cl(SrcPch))
    /\ LET w == Renumber(generate_pch(fs, Later(fs), SrcPch), PchCheck.cache)
       IN fs' = w.fs /\ file_edit_times' = w.cache
    /\ pc' = "compile"
    /\ UNCHANGED <<src_idx, obj_paths, result, touched, ctx, assets, src_dir, package_file_paths>>

PchFail ==
    /\ pc = "pch"
    /\ PchCheck.should_build
    /\ file_edit_times' = PchCheck.cache
    /\ toolLog' = Append(toolLog, Failed(Cl(SrcPch)))
    /\ pc' = "idle"
    /\ result' = "CompilerError"
    /\ UNCHANGED <<fs, src_idx, obj_paths, touched, ctx, assets, src_dir, package_file_paths>>

\* one turn of compile_directory's loop over paths.src_paths
CompileCheck(path) ==
    should_build_artifact(file_edit_times, fs, compile_dependencies(path),
                          get_artifact_path(path, objs_path, "obj"))

CompileSkip ==
    /\ pc = "compile" /\ src_idx <= Len(from_root(fs))
    /\ LET path == from_root(fs)[src_idx]
       IN /\ obj_paths' = Append(obj_paths, get_artifact_path(path, objs_path, "obj"))
          /\ \/ /\ is_pch(path)
                /\ UNCHANGED file_edit_times
             \/ /\ ~is_pch(path)
                /\ ~CompileCheck(path).should_build
                /\ file_edit_times' = CompileCheck(path).cache
    /\ src_idx' = src_idx + 1
    /\ UNCHANGED <<fs, pc, toolLog, result, touched, ctx, assets, src_dir, package_file_paths>>

CompileOk ==
    /\ pc = "compile" /\ src_idx <= Len(from_root(fs))
    /\ LET path == from_root(fs)[src_idx]
       IN /\ ~is_pch(path) /\ CompileCheck(path).should_build
          /\ obj_paths' = Append(obj_paths, get_artifact_path(path, objs_path, "obj"))
          /\ toolLog' = Append(toolLog, Cl(path))
          /\ LET w == Renumber(compile(fs, Later(fs), path), CompileCheck(path).cache)
             IN fs' = w.fs /\ file_edit_times' = w.cache
    /\ src_idx' = src_idx + 1
    /\ UNCHANGED <<pc, result, touched, ctx, assets, src_dir, package_file_paths>>

\* cl.exe exits non-zero: compile returns CompilerError and build returns it
CompileFail ==
    /\ pc = "compile" /\ src_idx <= Len(from_root(fs))
    /\ LET path == from_root(fs)[src_idx]
       IN /\ ~is_pch(path) /\ CompileCheck(path).should_build
          /\ obj_paths' = Append(obj_paths, get_artifact_path(path, objs_path, "obj"))
          /\ file_edit_times' = CompileCheck(path).cache
          /\ toolLog' = Append(toolLog, Failed(Cl(path)))
    /\ pc' = "idle"
    /\ result' = "CompilerError"
    /\ UNCHANGED <<fs, src_idx, touched, ctx, assets, src_dir, package_file_paths>>

\* build() after compile_directory: the link check, the link, the packaging
LinkCheck ==
    should_build_artifact(file_edit_times, fs,
                          obj_paths \o linker_lib_dependencies, exe_path)

LinkSkip ==
    /\ pc = "compile" /\ src_idx > Len(from_root(fs))
    /\ ~LinkCheck.should_build
    /\ file_edit_times' = LinkCheck.cache
    /\ toolLog' = toolLog \o <<kill_debugger, kill_process(exe_name)>>
    /\ pc' = "idle"
    /\ result' = "Ok"
    /\ UNCHANGED <<fs, src_idx, obj_paths, touched, ctx, assets, src_dir, package_file_paths>>

\* link.exe succeeds; then the previous instance and the debugger are
\* killed, and fs::metadata(assets)? decides the packaging
LinkOk ==
    /\ pc = "compile" /\ src_idx > Len(from_root(fs))
    /\ LinkCheck.should_build
    /\ toolLog' = Append(toolLog, Link(exe_path))
                     \o <<kill_debugger, kill_process(exe_name)>>
    /\ LET w == Renumber(link(fs, Later(fs), exe_path), LinkCheck.cache)
       IN fs' = w.fs /\ file_edit_times' = w.cache
    /\ pc' = "idle"
    /\ result' = IF metadata(assets).ok THEN "Ok" ELSE "IoError"
    /\ package_file_paths' =
          IF ~metadata(assets).ok THEN <<>>
          ELSE <<exe_path, pdb_path>>
                 \o (IF metadata(assets).is_dir THEN <<assets_dir_path>> ELSE <<>>)
    /\ UNCHANGED <<src_idx, obj_paths, touched, ctx, assets, src_dir>>

LinkFail ==
    /\ pc = "compile" /\ src_idx > Len(from_root(fs))
    /\ LinkCheck.should_build
    /\ file_edit_times' = LinkCheck.cache
    /\ toolLog' = Append(toolLog, Failed(Link(exe_path)))
    /\ pc' = "idle"
    /\ result' = "LinkerError"
    /\ UNCHANGED <<fs, src_idx, obj_paths, touched, ctx, assets, src_dir, package_file_paths>>

\* after a build that succeeded the user writes a source, a header, a library
\* or the manifest (at most MaxTouched files before the next build) of a
\* workspace whose src is still there
Touch ==
    /\ pc = "idle"
    /\ result = "Ok"
    /\ src_dir = "Ok"
    /\ Cardinality(touched) < MaxTouched
    /\ \E p \in InputPaths \ touched :
        /\ fs[p] # NoFile
        /\ LET w == Renumber([fs EXCEPT ![p] = Later(fs)], file_edit_times)
           IN fs' = w.fs /\ file_edit_times' = w.cache
        /\ touched' = touched \cup {p}
    /\ UNCHANGED <<pc, src_idx, obj_paths, toolLog, result, ctx, assets, src_dir, package_file_paths>>

\* between two builds the src directory is deleted, or made unreadable
LoseSrc ==
    /\ pc = "idle"
    /\ result \in {"none", "Ok"}
    /\ touched = {}
    /\ src_dir = "Ok"
    /\ \E kind \in {"NotFound", "PermissionDenied"} :
        /\ src_dir' = kind
        /\ LET lost(p) == kind = "NotFound" /\ p.dir = src_dir_path
               w == Renumber([p \in DOMAIN fs |->
                                IF lost(p) THEN NoFile ELSE fs[p]],
                             file_edit_times)
           IN fs' = w.fs /\ file_edit_times' = w.cache
    /\ UNCHANGED <<pc, src_idx, obj_paths, toolLog, result, touched, ctx,
                   assets, package_file_paths>>

predVars == <<predArgs, lastCall, answered>>
buildVars == <<pc, src_idx, obj_paths, toolLog, result, touched, ctx, assets,
               src_dir, package_file_paths>>
taskVars == <<task, taskPc, prev, guaranteed, rgCalls, runResult, taskCtx,
              descriptor>>
vars == <<fs, file_edit_times, predArgs, lastCall, answered, pc, src_idx,
          obj_paths, toolLog, result, touched, ctx, assets, src_dir,
          package_file_paths,
          task, taskPc, prev, guaranteed, rgCalls, runResult, taskCtx,
          descriptor,
          manifests, projects, stack, phase, fatal, built, link_libraries,
          cmd, plan, produced_artifact,
          unique_compiler_output, warning_cache, displayed, received,
          consumer, compile_flags, command_line, artifact_map,
          process, readers, line_channel, parser, output_channel, run, fed,
          emitted>>
flagVars == <<compile_flags, command_line, artifact_map>>
consumerVars ==
    <<unique_compiler_output, warning_cache, displayed, received, consumer>>
pipeVars ==
    <<process, readers, line_channel, parser, output_channel, run, fed,
      emitted>>
outputVars == <<consumerVars, pipeVars>>
graphVars == <<manifests, projects, stack, phase, fatal, built, link_libraries,
               cmd, plan, produced_artifact>>
otherVars == <<predVars, taskVars, graphVars, outputVars, flagVars>>

\* main's build(): Err(error) => env.fail(error), which prints the error and
\* ends the process with std::process::exit(1)
exit_code_of_success(build_result) == 0

exit_code(build_result) == IF build_result = "Ok" THEN 0 ELSE 1

BuildNext ==
    \/ StartBuild /\ UNCHANGED otherVars
    \/ ScanFail /\ UNCHANGED otherVars
    \/ LoseSrc /\ UNCHANGED otherVars
    \/ PchSkip /\ UNCHANGED otherVars
    \/ PchOk /\ UNCHANGED otherVars
    \/ PchFail /\ UNCHANGED otherVars
    \/ CompileSkip /\ UNCHANGED otherVars
    \/ CompileOk /\ UNCHANGED otherVars
    \/ CompileFail /\ UNCHANGED otherVars
    \/ LinkSkip /\ UNCHANGED otherVars
    \/ LinkOk /\ UNCHANGED otherVars
    \/ LinkFail /\ UNCHANGED otherVars
    \/ Touch /\ UNCHANGED otherVars

Spec == BuildInit /\ [][BuildNext]_vars

(***************************************************************************)
(* Claims about one project's builds (Spec).                               *)
(***************************************************************************)
BuildEnded == pc = "idle" /\ result \notin {"none", "running"}
\* the i-th tool of the build is the invocation t, whatever its exit status
Is(i, t) == toolLog[i].tool = t.tool /\ toolLog[i].path = t.path
Invoked(t) == \E i \in 1..Len(toolLog) : Is(i, t)
Before(t, u) == \E i, j \in 1..Len(toolLog) : i < j /\ Is(i, t) /\ Is(j, u)

\* C1: idempotence.  A build that starts after a successful build, with no
\* source, header, library or manifest written in between, invokes neither
\* the compiler nor the linker.
C1_Idempotence ==
    (ctx.prevOk /\ ctx.touched = {})
        => \A i \in 1..Len(toolLog) : toolLog[i].tool \notin {"cl", "link"}

\* a second build has ended after a first one that compiled and linked
C1_Witness ==
    /\ BuildEnded /\ result = "Ok"
    /\ ctx.prevOk /\ ctx.touched = {}
    /\ fs[exe_path] # NoFile

\* C2: source-change invalidation.  After a successful build, when a source
\* is newer than its object file, the next build (scenario S1: its tools
\* succeed) invokes the compiler for that source and then the linker.
C2_SourceChange ==
    \A s \in Range(src_paths) :
        (BuildEnded /\ ctx.prevOk /\ s \in ctx.newer /\ result # "CompilerError")
            => Before(Cl(s), Link(exe_path))

\* a build after a successful one has recompiled a newer source and ended well
C2_Witness ==
    /\ BuildEnded /\ result = "Ok"
    /\ ctx.prevOk /\ SrcA \in ctx.newer
    /\ Invoked(Cl(SrcA))

\* C3: manifest-change invalidation.  After a successful build, when the
\* manifest has been written (it is newer than every artifact), the next
\* build compiles every source and links.
C3_ManifestChange ==
    (BuildEnded /\ ctx.prevOk /\ ManifestPath \in ctx.touched
        /\ result # "CompilerError")
        => /\ \A s \in Range(from_root(fs)) : Invoked(Cl(s))
           /\ Invoked(Link(exe_path))

\* C4: header-change invalidation.  After a successful build, when only the
\* header h.h has been written, the next build compiles exactly the sources
\* that include h.h, and links.
C4_HeaderChange ==
    (BuildEnded /\ ctx.prevOk /\ ctx.touched = {HdrH} /\ result # "CompilerError")
        => /\ \A s \in Range(src_paths) : Invoked(Cl(s)) <=> HdrH \in Includes(s)
           /\ Invoked(Link(exe_path))

Compiled(i) == toolLog[i].tool = "cl"
Linked(i) == toolLog[i].tool = "link"

\* C16: orchestrator barriers.  Within one project build the generation of
\* the precompiled header (when src/pch.cpp exists and the PCH is stale)
\* completes before any other source is compiled, and every compile of the
\* build has completed before the linker is invoked.
C16_OrchestratorBarriers ==
    /\ \A i, j \in 1..Len(toolLog) :
          /\ (Compiled(i) /\ toolLog[i].path = SrcPch
                /\ Compiled(j) /\ toolLog[j].path # SrcPch) => i < j
          /\ (Compiled(i) /\ Linked(j)) => i < j
    /\ (/\ touched = {}
        /\ fs[SrcPch] # NoFile
        /\ \E j \in 1..Len(toolLog) : Compiled(j) /\ toolLog[j].path # SrcPch)
          => /\ fs[gen_pch_path] # NoFile
             /\ fs[gen_pch_path] >= fs[SrcPch]
             /\ \A h \in Range(header_paths) : fs[gen_pch_path] >= fs[h]

\* after the header was written, a build has generated the precompiled
\* header, then compiled a.cpp and b.cpp, then linked
C16_Witness ==
    /\ BuildEnded /\ result = "Ok"
    /\ ctx.prevOk /\ ctx.touched = {PchH}
    /\ Before(Cl(SrcPch), Cl(SrcA))
    /\ Before(Cl(SrcPch), Cl(SrcB))
    /\ Before(Cl(SrcB), Link(exe_path))

\* C17: kill before link.  In every build that invokes the linker, the
\* previous instance of the product and the debugger are killed before the
\* linker is invoked.
C17_KillBeforeLink ==
    \A j \in 1..Len(toolLog) :
        Linked(j) =>
            /\ \E i \in 1..(j - 1) : toolLog[i] = kill_debugger
            /\ \E i \in 1..(j - 1) : toolLog[i] = kill_process(exe_name)

\* C18: failure aggregation.  When a build reports a compiler error, the
\* compiler has been invoked for every source that needed rebuilding when
\* the build started (a project without pch.cpp: no barrier stands between
\* its compiles).
C18_FailureAggregation ==
    (BuildEnded /\ result = "CompilerError" /\ fs[SrcPch] = NoFile)
        => \A s \in ctx.newer :
               \E i \in 1..Len(toolLog) : Compiled(i) /\ toolLog[i].path = s

\* C19: a compile failure is fatal.  When a compiler invocation of a build
\* has exited non-zero, the build has stopped there and returned
\* CompilerError, the linker was not invoked in that build, the binary is the
\* one that was there before, and the process exits with status 1.
C19_CompileFailureFatal ==
    /\ [](\A i \in 1..Len(toolLog) :
            (Compiled(i) /\ ~toolLog[i].ok)
               => /\ i = Len(toolLog)
                  /\ pc = "idle"
                  /\ result = "CompilerError"
                  /\ exit_code(result) = 1
                  /\ \A j \in 1..Len(toolLog) : ~Linked(j))
    /\ [][result' = "CompilerError" => fs'[exe_path] = fs[exe_path]]_vars

\* a rebuild has compiled a.cpp, and the compiler has failed on b.cpp: the
\* binary of the build before is still there
C19_Witness ==
    /\ BuildEnded /\ result = "CompilerError"
    /\ ctx.prevOk
    /\ toolLog = <<Cl(SrcA), Failed(Cl(SrcB))>>
    /\ fs[exe_path] # NoFile

(***************************************************************************)
(* PredSpec: the predicate applied once to every small input: a file       *)
(* system, a cache as earlier calls and later writes can have left it      *)
(* (possibly stale, possibly holding a fallback), and the arguments.       *)
(***************************************************************************)
PredPaths == {"p", "q"}
PredTimes == 0..MaxTime
\* the paths of a set in every order, for each subset
PredSeqs == {<<>>, <<"p">>, <<"q">>, <<"p", "q">>, <<"q", "p">>}
PredCaches ==
    UNION {[D -> PredTimes \cup {U64Max}] : D \in SUBSET PredPaths}

PredInit ==
    /\ fs \in [PredPaths -> PredTimes \cup {NoFile}]
    /\ file_edit_times \in PredCaches
    /\ predArgs \in [deps : PredSeqs, arts : PredSeqs, filter : SUBSET PredPaths]
    /\ lastCall = NoCall
    /\ answered = EmptyMap
    /\ pc = "idle"
    /\ src_idx = 1
    /\ obj_paths = <<>>
    /\ toolLog = <<>>
    /\ result = "none"
    /\ touched = {}
    /\ ctx = NoCtx
    /\ assets = "NotFound"
    /\ src_dir = "Ok"
    /\ package_file_paths = <<>>
    /\ TaskIdle
    /\ GraphIdle
    /\ OutputIdle
    /\ FlagIdle

PredCall ==
    /\ ~lastCall.called
    /\ LET r == should_build_artifacts_impl(file_edit_times, fs, predArgs.deps,
                                            predArgs.arts, predArgs.filter)
       IN /\ file_edit_times' = r.cache
          /\ lastCall' = [called |-> TRUE, cacheBefore |-> file_edit_times,
                          result |-> r.should_build]
    /\ UNCHANGED <<fs, predArgs, answered>>
    /\ UNCHANGED <<buildVars, taskVars, graphVars, outputVars, flagVars>>

PredNext == PredCall

PredSpec == PredInit /\ [][PredNext]_vars

(***************************************************************************)
(* Claims about the up-to-date predicate (PredSpec).                       *)
(***************************************************************************)
\* what edit_time answers for a path in the call: the cached time, else the
\* time on disk, else the fallback of the path's first query in the call
\* (u64::MAX as a dependency, which are queried first, 0 as an artifact)
SeenTime(path) ==
    IF path \in DOMAIN lastCall.cacheBefore THEN lastCall.cacheBefore[path]
    ELSE IF fs[path] # NoFile THEN fs[path]
    ELSE IF path \in Range(predArgs.deps) THEN U64Max ELSE 0
NewestDep ==
    IF predArgs.deps = <<>> THEN 0
    ELSE Max({SeenTime(d) : d \in Range(predArgs.deps)})
Matching == Range(predArgs.arts) \cap predArgs.filter
OldestArt ==
    IF Matching = {} THEN 0 ELSE Min({SeenTime(a) : a \in Matching})

\* C8: should_build_artifacts_impl answers true exactly when the newest
\* dependency (edit_time with fallback u64::MAX; 0 for no dependency) is
\* strictly newer than the oldest artifact the filter accepts (edit_time
\* with fallback 0; 0 for none); equal time stamps give false.
C8_PredicateResult ==
    lastCall.called => (lastCall.result <=> NewestDep > OldestArt)

\* a call whose newest dependency and oldest artifact carry the same stamp
C8_Witness ==
    /\ lastCall.called /\ ~lastCall.result
    /\ predArgs.deps # <<>> /\ Matching # {}
    /\ Range(predArgs.deps) \cap Matching = {}
    /\ NewestDep = OldestArt /\ NewestDep > 0

\* C23: forget on a positive answer.  When should_build_artifacts_impl
\* answers true, no artifact path passed to it is left in the edit-time
\* cache, whether the filter accepts it or not, while every dependency path
\* that is not also passed as an artifact is in the cache and every other
\* entry the cache held is kept with its time; when it answers false, every
\* entry the cache held is kept with its time.
C23_ForgetOnPositive ==
    lastCall.called =>
        LET kept == IF lastCall.result
                    THEN DOMAIN lastCall.cacheBefore \ Range(predArgs.arts)
                    ELSE DOMAIN lastCall.cacheBefore
        IN /\ \A p \in kept :
                /\ p \in DOMAIN file_edit_times
                /\ file_edit_times[p] = lastCall.cacheBefore[p]
           /\ lastCall.result =>
                /\ Range(predArgs.arts) \cap DOMAIN file_edit_times = {}
                /\ Range(predArgs.deps) \ Range(predArgs.arts)
                      \subseteq DOMAIN file_edit_times

\* a positive answer with a cached artifact that the filter leaves out and
\* a cached dependency: the artifact is forgotten, the dependency is not
C23_Witness ==
    /\ lastCall.called /\ lastCall.result
    /\ predArgs.deps = <<"p">> /\ predArgs.arts = <<"q">>
    /\ predArgs.filter = {}
    /\ DOMAIN lastCall.cacheBefore = {"p", "q"}
    /\ DOMAIN file_edit_times = {"p"}

(***************************************************************************)
(* The task model (src/task.rs): Task, TaskExt::run, IdentityTask and      *)
(* CxxTask, run on one source of a project with a precompiled header.      *)
(***************************************************************************)
src_deps_path == "src_deps"
IdentityTask(path) == [kind |-> "identity", path |-> path, pch |-> "NoPch"]
\* CxxTask::compile(src, pch): src is the IdentityTask of the path
CxxTask(src, pch) == [kind |-> "cxx", path |-> src, pch |-> pch]
PchOption == {"GeneratePch", "UsePch", "NoPch"}
Tasks ==
    {IdentityTask(SrcA)} \cup {CxxTask(SrcA, o) : o \in PchOption}
        \cup {CxxTask(SrcPch, o) : o \in PchOption}

\* the descriptor the compiler emits for a source (/sourceDependencies)
src_deps_json_path(path) == get_artifact_path(path, src_deps_path, "json")
\* the extension of the artifact previous_valid_run looks at
extension(t) == IF t.pch = "GeneratePch" THEN "pch" ELSE "obj"
artifact_path(t) == get_artifact_path(t.path, objs_path, extension(t))
\* what run_guaranteed makes the compiler write: /Fo, and /Fp when generating
obj_path(t) == get_artifact_path(t.path, objs_path, "obj")

TaskInputs == {SrcA, SrcPch, HdrH}
ArtifactsOf(path) ==
    {get_artifact_path(path, objs_path, "obj"),
     get_artifact_path(path, objs_path, "pch"), src_deps_json_path(path)}
TaskPaths == TaskInputs \cup ArtifactsOf(SrcA) \cup ArtifactsOf(SrcPch)
Descriptors == {src_deps_json_path(SrcA), src_deps_json_path(SrcPch)}

\* the Includes of a descriptor: every source of the project includes h.h
descriptor_includes(path) == <<HdrH>>

\* BuildEnvironment::discover_src_deps: none for a stale or missing
\* descriptor, an error for one that does not parse, else its dependencies
discover_src_deps(cache, files, desc, path) ==
    LET sidecar == src_deps_json_path(path)
        stale == should_build_artifact(cache, files, <<path>>, sidecar)
    IN IF stale.should_build
       THEN [ok |-> TRUE, some |-> FALSE, deps |-> <<>>, cache |-> stale.cache]
       ELSE IF desc[sidecar] = "corrupt"
       THEN [ok |-> FALSE, some |-> FALSE, deps |-> <<>>, cache |-> stale.cache]
       ELSE [ok |-> TRUE, some |-> TRUE, deps |-> descriptor_includes(path),
             cache |-> stale.cache]

\* Task::previous_valid_run: the result and the cache after the call
previous_valid_run(cache, files, desc, t) ==
    IF t.kind = "identity"
    THEN [result |-> Ok(t.path), cache |-> cache]
    ELSE LET path == t.path
             generating_pch == t.pch = "GeneratePch"
             found == discover_src_deps(cache, files, desc, path)
             dependencies == <<path>> \o found.deps
             checked == generating_pch \/ ~is_pch(path)
             check == should_build_artifact(found.cache, files, dependencies,
                                            artifact_path(t))
             should_rebuild ==
                 checked /\ (IF found.some THEN check.should_build ELSE TRUE)
         IN IF ~found.ok
            THEN [result |-> Err("DiscoverSrcDepsError"), cache |-> found.cache]
            ELSE [result |-> IF should_rebuild
                             THEN Ok(artifact_path(t))
                             ELSE Err("NoPreviousRun"),
                  cache |-> IF checked /\ found.some
                            THEN check.cache ELSE found.cache]

\* mutant of run_uses_previous: run never looks at the previous run
run_ignores_previous(previous) == FALSE
\* if let Ok(prev) = self.previous_valid_run(env)
run_uses_previous(previous) == previous.ok

\* what the compiler writes for a CxxTask when it succeeds
compile_cxx(files, desc, time, t) ==
    LET written == {obj_path(t), src_deps_json_path(t.path)}
                     \cup (IF t.pch = "GeneratePch" THEN {gen_pch_path} ELSE {})
    IN [fs |-> [p \in DOMAIN files |-> IF p \in written THEN time ELSE files[p]],
        descriptor |-> [desc EXCEPT ![src_deps_json_path(t.path)] = "valid"]]

\* how the descriptor of a source stands: absent, unparseable or valid
DescriptorState(files, desc, path) ==
    IF files[src_deps_json_path(path)] = NoFile THEN "absent"
    ELSE IF desc[src_deps_json_path(path)] = "corrupt" THEN "unparseable"
    ELSE "valid"

BuildIdle ==
    /\ pc = "idle"
    /\ src_idx = 1
    /\ obj_paths = <<>>
    /\ toolLog = <<>>
    /\ result = "none"
    /\ touched = {}
    /\ ctx = NoCtx
    /\ assets = "NotFound"
    /\ src_dir = "Ok"
    /\ package_file_paths = <<>>
PredIdle ==
    /\ predArgs = [deps |-> <<>>, arts |-> <<>>, filter |-> {}]
    /\ lastCall = NoCall
    /\ answered = EmptyMap

(***************************************************************************)
(* TaskSpec: one task is run again and again; between two runs the user    *)
(* writes the source or the header, the descriptor is deleted or damaged,  *)
(* or a new invocation starts with an empty edit-time cache.               *)
(***************************************************************************)
TaskInit ==
    /\ fs = [p \in TaskPaths |-> IF p \in TaskInputs THEN 1 ELSE NoFile]
    /\ file_edit_times = EmptyMap
    /\ task \in Tasks
    /\ descriptor = [j \in Descriptors |-> "valid"]
    /\ taskPc = "idle"
    /\ prev = NoResult
    /\ guaranteed = NoResult
    /\ rgCalls = 0
    /\ runResult = NoResult
    /\ taskCtx = NoTaskCtx
    /\ BuildIdle
    /\ PredIdle
    /\ GraphIdle
    /\ OutputIdle
    /\ FlagIdle

Resting == taskPc \in {"idle", "done"}

\* TaskExt::run, up to the answer of previous_valid_run
RunBegin ==
    /\ Resting
    /\ LET r == previous_valid_run(file_edit_times, fs, descriptor, task)
           found == discover_src_deps(file_edit_times, fs, descriptor, task.path)
           check == should_build_artifact(found.cache, fs,
                                          <<task.path>> \o found.deps,
                                          artifact_path(task))
       IN /\ prev' = r.result
          /\ file_edit_times' = r.cache
          /\ taskCtx' = [descriptor |-> DescriptorState(fs, descriptor, task.path),
                         some |-> found.ok /\ found.some,
                         should_build |-> check.should_build]
    /\ taskPc' = "called"
    /\ guaranteed' = NoResult
    /\ rgCalls' = 0
    /\ runResult' = NoResult
    /\ UNCHANGED <<fs, task, descriptor>>

\* Ok(prev)
RunReuse ==
    /\ taskPc = "called"
    /\ run_uses_previous(prev)
    /\ runResult' = Ok(prev.path)
    /\ taskPc' = "done"
    /\ UNCHANGED <<fs, file_edit_times, task, prev, guaranteed, rgCalls,
                   taskCtx, descriptor>>

\* self.run_guaranteed(env).await, the compiler succeeding for a CxxTask
RunGuaranteedOk ==
    /\ taskPc = "called"
    /\ ~run_uses_previous(prev)
    /\ rgCalls' = rgCalls + 1
    /\ IF task.kind = "identity"
       THEN /\ guaranteed' = Ok(task.path)
            /\ UNCHANGED <<fs, file_edit_times, descriptor>>
       ELSE /\ guaranteed' = Ok(obj_path(task))
            /\ LET c == compile_cxx(fs, descriptor, Later(fs), task)
                   w == Renumber(c.fs, file_edit_times)
               IN fs' = w.fs /\ file_edit_times' = w.cache
                  /\ descriptor' = c.descriptor
    /\ runResult' = guaranteed'
    /\ taskPc' = "done"
    /\ UNCHANGED <<task, prev, taskCtx>>

\* self.run_guaranteed(env).await, the compiler failing
RunGuaranteedFail ==
    /\ taskPc = "called"
    /\ ~run_uses_previous(prev)
    /\ task.kind = "cxx"
    /\ rgCalls' = rgCalls + 1
    /\ guaranteed' = Err("CompilerError")
    /\ runResult' = guaranteed'
    /\ taskPc' = "done"
    /\ UNCHANGED <<fs, file_edit_times, task, prev, taskCtx, descriptor>>

runVars == <<task, taskPc, prev, guaranteed, rgCalls, runResult, taskCtx>>

\* the user writes the source of the task or the header
TaskTouch ==
    /\ Resting
    /\ \E p \in {task.path, HdrH} :
        LET w == Renumber([fs EXCEPT ![p] = Later(fs)], file_edit_times)
        IN fs' = w.fs /\ file_edit_times' = w.cache
    /\ UNCHANGED <<runVars, descriptor>>

\* the descriptor of the source is deleted (a clean of src_deps)
DeleteDescriptor ==
    /\ Resting
    /\ task.kind = "cxx"
    /\ fs[src_deps_json_path(task.path)] # NoFile
    /\ LET w == Renumber([fs EXCEPT ![src_deps_json_path(task.path)] = NoFile],
                         file_edit_times)
       IN fs' = w.fs /\ file_edit_times' = w.cache
    /\ descriptor' = [descriptor EXCEPT ![src_deps_json_path(task.path)] = "valid"]
    /\ UNCHANGED runVars

\* the descriptor of the source is overwritten with something that is no
\* descriptor (an interrupted write, another tool)
CorruptDescriptor ==
    /\ Resting
    /\ task.kind = "cxx"
    /\ descriptor[src_deps_json_path(task.path)] = "valid"
    /\ LET w == Renumber([fs EXCEPT ![src_deps_json_path(task.path)] = Later(fs)],
                         file_edit_times)
       IN fs' = w.fs /\ file_edit_times' = w.cache
    /\ descriptor' = [descriptor EXCEPT ![src_deps_json_path(task.path)] = "corrupt"]
    /\ UNCHANGED runVars

\* a new invocation: BuildEnvironment::new starts with an empty cache
NewEnvironment ==
    /\ Resting
    /\ file_edit_times # EmptyMap
    /\ file_edit_times' = EmptyMap
    /\ UNCHANGED <<fs, runVars, descriptor>>

TaskNext ==
    \/ RunBegin /\ UNCHANGED <<predVars, buildVars, graphVars, outputVars, flagVars>>
    \/ RunReuse /\ UNCHANGED <<predVars, buildVars, graphVars, outputVars, flagVars>>
    \/ RunGuaranteedOk /\ UNCHANGED <<predVars, buildVars, graphVars, outputVars, flagVars>>
    \/ RunGuaranteedFail /\ UNCHANGED <<predVars, buildVars, graphVars, outputVars, flagVars>>
    \/ TaskTouch /\ UNCHANGED <<predVars, buildVars, graphVars, outputVars, flagVars>>
    \/ DeleteDescriptor /\ UNCHANGED <<predVars, buildVars, graphVars, outputVars, flagVars>>
    \/ CorruptDescriptor /\ UNCHANGED <<predVars, buildVars, graphVars, outputVars, flagVars>>
    \/ NewEnvironment /\ UNCHANGED <<predVars, buildVars, graphVars, outputVars, flagVars>>

TaskSpec == TaskInit /\ [][TaskNext]_vars


(***************************************************************************)
(* Claims about the task model (TaskSpec).                                 *)
(***************************************************************************)
RunEnded == taskPc = "done"

\* C5: missing-descriptor safety.  A run of the compile task of a source
\* whose dependency descriptor is absent or does not parse calls the
\* compiler, and previous_valid_run gives no artifact path to reuse.
C5_MissingDescriptor ==
    (RunEnded /\ task.kind = "cxx"
        /\ taskCtx.descriptor \in {"absent", "unparseable"})
        => (rgCalls = 1 /\ ~prev.ok)

\* C6: for a compile task whose source is not the root pch.cpp,
\* previous_valid_run returns the artifact path exactly when a descriptor
\* is found and the up-to-date predicate over the descriptor's dependencies
\* plus the source reports no rebuild; the run calls the compiler exactly
\* in the other cases.
C6_PreviousValidRun ==
    (RunEnded /\ task.kind = "cxx" /\ ~is_pch(task.path))
        => LET current == taskCtx.some /\ ~taskCtx.should_build
           IN /\ prev.ok <=> current
              /\ prev.ok => prev.path = artifact_path(task)
              /\ rgCalls = 1 <=> ~current

\* C7: run composition.  A run returns the path of previous_valid_run
\* without a call of run_guaranteed when previous_valid_run gives a path;
\* otherwise it returns the result of its one call of run_guaranteed.
C7_RunComposition ==
    /\ rgCalls <= 1
    /\ RunEnded =>
         IF prev.ok
         THEN runResult = Ok(prev.path) /\ rgCalls = 0 /\ guaranteed = NoResult
         ELSE rgCalls = 1 /\ runResult = guaranteed /\ guaranteed # NoResult

\* a run that found no previous valid run and compiled
C7_Witness ==
    /\ RunEnded /\ task.kind = "cxx"
    /\ ~prev.ok /\ rgCalls = 1
    /\ runResult = Ok(obj_path(task))

(***************************************************************************)
(* Project graph resolution (src/main.rs, the build subcommand): the       *)
(* manifests, accumulate_dependencies, validate_dependencies, build_all.   *)
(***************************************************************************)
\* if proj.ref_count > 100
RefCountCeiling == 100
\* the longest dependencies array of the root manifest, and of a library
MaxDeps == 2
MaxLibDeps == 1
\* the layers of the layered workspace and the libraries of a layer
Layers == 7
LayerWidth == 2

\* the project directories, by canonical path; abs is run in RootDir
RootDir == "."
LibOne == "libs/one"
LibTwo == "libs/two"
Dirs == {RootDir, LibOne, LibTwo}

CxxOptionsDefault == [rtti |-> FALSE, async_await |-> TRUE, standard |-> "c++20"]
ProjectConfig(name, output_type, link_libs, dependencies) ==
    [name |-> name, cxx_options |-> CxxOptionsDefault,
     output_type |-> output_type, link_libraries |-> link_libs,
     supported_targets |-> <<"Win64">>, dependencies |-> dependencies]

\* the dependencies arrays of at most n entries, duplicates included
DepLists(n) == UNION {[1..k -> Dirs] : k \in 0..n}

\* the workspaces: the root is a console app named app, libs/one a static
\* library named one; libs/two takes a name of its own, the name of
\* libs/one or the root's name, and is a static or a dynamic library that
\* asks for a link library the root asks for too
Workspaces ==
    {(RootDir :> ProjectConfig("app", "ConsoleApp", <<"user32">>, d0))
       @@ (LibOne :> ProjectConfig("one", "StaticLibrary", <<"ole32">>, d1))
       @@ (LibTwo :> ProjectConfig(two[1], two[2], <<"user32">>, d2)) :
        d0 \in DepLists(MaxDeps), d1 \in DepLists(MaxLibDeps),
        d2 \in DepLists(MaxLibDeps),
        two \in {<<"two", "StaticLibrary">>, <<"one", "StaticLibrary">>,
                 <<"app", "StaticLibrary">>, <<"two", "DynamicLibrary">>}}

\* a workspace without a cycle in which many paths lead to one project:
\* the root depends on the LayerWidth libraries of layer 1, each library of
\* a layer on every library of the next layer, each library of the last
\* layer on the library base
LayerDir(l, k) == "layers/" \o ToString(l) \o "/" \o ToString(k)
BaseDir == "layers/base"
Layer(l) == [k \in 1..LayerWidth |-> LayerDir(l, k)]
Layered ==
    LET library(dir, dependencies) ==
            ProjectConfig(dir, "StaticLibrary", <<>>, dependencies)
        dirs == UNION {Range(Layer(l)) : l \in 1..Layers}
    IN [dir \in {RootDir, BaseDir} \cup dirs |->
          IF dir = RootDir
          THEN ProjectConfig("app", "ConsoleApp", <<"user32">>, Layer(1))
          ELSE IF dir = BaseDir THEN library(dir, <<>>)
          ELSE LET l == CHOOSE n \in 1..Layers : dir \in Range(Layer(n))
               IN library(dir, IF l = Layers THEN <<BaseDir>> ELSE Layer(l + 1))]

\* struct Project
Project(config_path, config, ref_count) ==
    [config_path |-> config_path, config |-> config, ref_count |-> ref_count,
     dep_names |-> <<>>, visited |-> FALSE]

\* one call of accumulate_dependencies: its manifest, the index of the next
\* dependency of the for loop, and its dep_names vector
Frame(config_path) == [config_path |-> config_path, i |-> 1, dep_names |-> <<>>]

\* load_config's checks of the supported targets list
load_config(files, root_path) ==
    LET config == files[root_path]
        targets == config.supported_targets
    IN IF targets = <<>> THEN "empty list of supported targets"
       ELSE IF Cardinality(Range(targets)) < Len(targets)
       THEN "duplicates in list of supported targets"
       ELSE ""

\* unique_deps.len() < canonical_deps.len()
has_duplicates(canonical_deps) ==
    Cardinality(Range(canonical_deps)) < Len(canonical_deps)

\* mutant of recurses: a project already in the map is not traversed again
recurses_when_inserted(inserted) == inserted
\* accumulate_dependencies(projects, dep_config_path, &dep_config): always
recurses(inserted) == TRUE

\* mutant of path_differs: the check of the canonical paths is left out
path_unchecked(dep_config_path, config_path) == FALSE
\* if dep_config_path != proj.config_path
path_differs(dep_config_path, config_path) == dep_config_path # config_path

\* one turn of the for loop of accumulate_dependencies on dependency number
\* i of the manifest at config_path, up to the recursive call and the
\* duplicate check the callee starts with
accumulate_dependency(files, projs, config_path, i) ==
    LET dependency == files[config_path].dependencies[i]
        dep_config == files[dependency]
        inserted == dep_config.name \notin DOMAIN projs
        found == IF inserted THEN Project(dependency, dep_config, 0)
                 ELSE projs[dep_config.name]
        proj == [found EXCEPT !.ref_count = @ + 1]
        loaded == load_config(files, dependency)
    IN [projects |-> IF loaded # "" THEN projs
                     ELSE (dep_config.name :> proj) @@ projs,
        name |-> proj.config.name,
        dependency |-> dependency,
        recurse |-> recurses(inserted),
        fatal |-> IF loaded # "" THEN loaded
                  ELSE IF proj.ref_count > RefCountCeiling
                  THEN "Loop found in dependency graph."
                  ELSE IF path_differs(dependency, proj.config_path)
                  THEN "Two projects in dependency graph found with the same name"
                  ELSE IF recurses(inserted) /\ has_duplicates(dep_config.dependencies)
                  THEN "duplicates in dependencies array"
                  ELSE ""]

\* CxxStandard::numeric_value
numeric_value(self) ==
    CASE self = "c++11" -> 11
      [] self = "c++14" -> 14
      [] self = "c++17" -> 17
      [] self = "c++20" -> 20

\* CxxOptions::is_compatible_with; CxxStandard's Ord compares numeric_value
is_compatible_with_any_standard(self, other) ==
    /\ self.rtti = other.rtti
    /\ self.async_await = other.async_await

is_compatible_with(self, other) ==
    /\ self.rtti = other.rtti
    /\ self.async_await = other.async_await
    /\ numeric_value(self.standard) <= numeric_value(other.standard)

\* matches!(dep.config.output_type, OutputType::StaticLibrary)
is_any_library(output_type) ==
    output_type \in {"StaticLibrary", "DynamicLibrary"}

is_static_library(output_type) == output_type = "StaticLibrary"

\* dep.config.supported_targets.contains(platform)
contains_anything(supported_targets, platform) == TRUE

contains(supported_targets, platform) == platform \in Range(supported_targets)

\* mutant of validate_dependencies: no link library is collected
validate_without_libraries(st, name, root_cxx_options) ==
    [projects |-> [n \in DOMAIN st.projects |->
                     [st.projects[n] EXCEPT !.visited = TRUE]],
     link_libraries |-> {}, fatal |-> ""]

\* validate_dependencies(projects, link_libraries, name, root_cxx_options):
\* st holds the projects, the link_libraries set and the fail_immediate
\* message, if one was hit; validate_each is its for loop from dependency k
RECURSIVE validate_dependencies(_, _, _), validate_each(_, _, _, _)
validate_dependencies(st, name, root_cxx_options) ==
    IF st.fatal # "" \/ st.projects[name].visited THEN st
    ELSE LET after == validate_each(st, name, 1, root_cxx_options)
         IN IF after.fatal # "" THEN after
            ELSE [projects |-> [after.projects EXCEPT ![name].visited = TRUE],
                  link_libraries |->
                      after.link_libraries
                        \cup Range(after.projects[name].config.link_libraries),
                  fatal |-> ""]
validate_each(st, name, k, root_cxx_options) ==
    IF st.fatal # "" \/ k > Len(st.projects[name].dep_names) THEN st
    ELSE LET validated == validate_dependencies(st, st.projects[name].dep_names[k],
                                                root_cxx_options)
             dep == validated.projects[st.projects[name].dep_names[k]]
             supported_targets == st.projects[name].config.supported_targets
             message ==
                 IF validated.fatal # "" THEN validated.fatal
                 ELSE IF ~is_static_library(dep.config.output_type)
                 THEN "Only static library dependencies are supported at this time."
                 ELSE IF ~is_compatible_with(dep.config.cxx_options, root_cxx_options)
                 THEN "C++ options are incompatible with those of the root project"
                 ELSE IF \E platform \in Range(supported_targets) :
                            ~contains(dep.config.supported_targets, platform)
                 THEN "dependency does not support target"
                 ELSE ""
         IN validate_each([validated EXCEPT !.fatal = message], name, k + 1,
                          root_cxx_options)

\* the sequences that list the elements of a set once each: the orders in
\* which a HashSet or a HashMap can be iterated
Orders(S) ==
    {o \in [1..Cardinality(S) -> S] : \A x \in S : \E i \in DOMAIN o : o[i] = x}

\* mutant of adapt_to_workspace: the manifest is left as it was declared
adapt_nothing(self, root_config) == self
\* ProjectConfig::adapt_to_workspace
adapt_to_workspace(self, root_config) ==
    [self EXCEPT !.cxx_options = root_config.cxx_options]

\* artifact_path of build with <name>.lib pushed, as a string
lib_path(name) == "abs/" \o name \o ".lib"

\* a command line and the machine it is given on: the subcommand, its
\* --target (RawTarget) and Platform::host()
Platforms == {"Win32", "Win64", "Linux32", "Linux64"}
CommandLines ==
    [sub_command : {"build", "run", "debug"},
     target : {"win32", "win64", "all", "host"}, host : Platforms]
BuildForHost == [sub_command |-> "build", target |-> "host", host |-> "Win64"]

\* the workspaces of a project without dependencies: its output type and
\* its list of one or two supported targets
OutputTypes == {"GuiApp", "ConsoleApp", "DynamicLibrary", "StaticLibrary"}
TargetLists ==
    {<<a>> : a \in Platforms}
      \cup ({<<a, b>> : a, b \in Platforms} \ {<<a, a>> : a \in Platforms})
Lone(output_type, supported_targets) ==
    (RootDir :> [ProjectConfig("app", output_type, <<"user32">>, <<>>)
                   EXCEPT !.supported_targets = supported_targets])
      @@ (LibOne :> ProjectConfig("one", "StaticLibrary", <<"ole32">>, <<>>))
      @@ (LibTwo :> ProjectConfig("two", "StaticLibrary", <<>>, <<>>))
RootInvocations ==
    {[manifests |-> Lone(t, s), cmd |-> c] :
        t \in OutputTypes, s \in TargetLists, c \in CommandLines}

\* Platform::is_backwards_compatible_with
is_backwards_compatible_with_os(self, other) ==
    (self \in {"Win32", "Win64"}) = (other \in {"Win32", "Win64"})

is_backwards_compatible_with(self, other) ==
    CASE self = "Win32" -> other = "Win32"
      [] self = "Win64" -> other \in {"Win32", "Win64"}
      [] self = "Linux32" -> other = "Linux32"
      [] self = "Linux64" -> other \in {"Linux32", "Linux64"}

\* main's match on the specified target: the targets build_all is called
\* for, in order, or the fail_immediate message
select_targets(config, c) ==
    LET supported == config.supported_targets
        running == c.sub_command \in {"run", "debug"}
        compatible == {i \in 1..Len(supported) :
                         is_backwards_compatible_with(c.host, supported[i])}
        platform == IF c.target = "win32" THEN "Win32" ELSE "Win64"
        chosen(targets) == [fatal |-> "", targets |-> targets]
        failed(message) == [fatal |-> message, targets |-> <<>>]
    IN CASE c.target = "all" ->
              IF running THEN failed("Target all is not valid for subcommand")
              ELSE chosen(supported)
         [] c.target = "host" ->
              IF c.host \in Range(supported) THEN chosen(<<c.host>>)
              ELSE IF compatible # {} THEN chosen(<<supported[Min(compatible)]>>)
              ELSE IF running
              THEN failed("host platform is not compatible with any of the supported targets")
              ELSE IF Len(supported) = 1 THEN chosen(<<supported[1]>>)
              ELSE failed("Unable to choose a target platform")
         [] OTHER ->
              IF platform \notin Range(supported)
              THEN failed("Cannot build for target: not listed as a supported platform")
              ELSE IF ~is_backwards_compatible_with(c.host, platform) /\ running
              THEN failed("host platform is not compatible with the supplied target")
              ELSE chosen(<<platform>>)

(***************************************************************************)
(* GraphSpec: abs build run for the host in the root of each workspace and *)
(* of the layered workspace, and every subcommand run for the target all   *)
(* in a console app without dependencies.                                  *)
(***************************************************************************)
GraphInvocations ==
    {[manifests |-> w, cmd |-> BuildForHost] : w \in Workspaces \cup {Layered}}
      \cup {inv \in RootInvocations :
               /\ inv.manifests[RootDir].output_type = "ConsoleApp"
               /\ inv.cmd.target = "all" /\ inv.cmd.host = "Win64"}

\* the state of main when a subcommand starts
MainStarted(inv) ==
    /\ manifests = inv.manifests
    /\ cmd = inv.cmd
    /\ plan = [targets |-> <<>>, link_libraries |-> <<>>]
    /\ projects = EmptyMap
    /\ stack = <<>>
    /\ phase = "start"
    /\ fatal = ""
    /\ built = <<>>
    /\ link_libraries = <<>>
    /\ produced_artifact = {}
    /\ fs = EmptyMap
    /\ file_edit_times = EmptyMap
    /\ BuildIdle
    /\ PredIdle
    /\ TaskIdle
    /\ OutputIdle
    /\ FlagIdle

GraphInit == \E inv \in GraphInvocations : MainStarted(inv)

RootName == manifests[RootDir].name
Top == stack[Len(stack)]

\* load_config("."), the root inserted with ref_count 1, and the call of
\* accumulate_dependencies for it up to its for loop
Start ==
    /\ phase = "start"
    /\ LET config == manifests[RootDir]
           message == IF load_config(manifests, RootDir) # ""
                      THEN load_config(manifests, RootDir)
                      ELSE IF /\ config.output_type
                                    \in {"DynamicLibrary", "StaticLibrary"}
                              /\ cmd.sub_command \in {"run", "debug"}
                      THEN "subcommand not supported for library projects"
                      ELSE IF has_duplicates(config.dependencies)
                      THEN "duplicates in dependencies array"
                      ELSE ""
       IN /\ projects' = IF message \in {"duplicates in dependencies array", ""}
                         THEN (config.name :> Project(RootDir, config, 1))
                         ELSE projects
          /\ fatal' = message
          /\ phase' = IF message = "" THEN "accumulate" ELSE "failed"
          /\ stack' = IF message = "" THEN <<Frame(RootDir)>> ELSE <<>>
    /\ UNCHANGED <<manifests, cmd, produced_artifact, plan, built, link_libraries>>

\* one turn of the for loop; the dependency is entered when it is traversed
AccumulateDependency ==
    /\ phase = "accumulate"
    /\ Top.i <= Len(manifests[Top.config_path].dependencies)
    /\ LET r == accumulate_dependency(manifests, projects, Top.config_path, Top.i)
           caller == [Top EXCEPT !.i = @ + 1, !.dep_names = Append(@, r.name)]
       IN /\ r.fatal = ""
          /\ projects' = r.projects
          /\ stack' = [stack EXCEPT ![Len(stack)] = caller]
                        \o (IF r.recurse THEN <<Frame(r.dependency)>> ELSE <<>>)
    /\ UNCHANGED <<manifests, cmd, produced_artifact, plan, phase, fatal, built, link_libraries>>

\* one turn of the for loop that ends in fail_immediate
AccumulateFail ==
    /\ phase = "accumulate"
    /\ Top.i <= Len(manifests[Top.config_path].dependencies)
    /\ LET r == accumulate_dependency(manifests, projects, Top.config_path, Top.i)
       IN /\ r.fatal # ""
          /\ projects' = r.projects
          /\ fatal' = r.fatal
    /\ phase' = "failed"
    /\ UNCHANGED <<manifests, cmd, produced_artifact, plan, stack, built, link_libraries>>

\* the for loop is over: dep_names is stored and the call returns
AccumulateReturn ==
    /\ phase = "accumulate"
    /\ Top.i > Len(manifests[Top.config_path].dependencies)
    /\ projects' = [projects EXCEPT
                      ![manifests[Top.config_path].name].dep_names = Top.dep_names]
    /\ stack' = SubSeq(stack, 1, Len(stack) - 1)
    /\ phase' = IF Len(stack) = 1 THEN "validate" ELSE "accumulate"
    /\ UNCHANGED <<manifests, cmd, produced_artifact, plan, fatal, built, link_libraries>>

Validated ==
    validate_dependencies([projects |-> projects, link_libraries |-> {},
                           fatal |-> ""],
                          RootName, manifests[RootDir].cxx_options)

\* validate_dependencies passes; link_libraries is collected into a vector
ValidateOk ==
    /\ phase = "validate"
    /\ Validated.fatal = ""
    /\ projects' = Validated.projects
    /\ link_libraries' \in Orders(Validated.link_libraries)
    /\ phase' = "select"
    /\ UNCHANGED <<manifests, cmd, produced_artifact, plan, stack, fatal, built>>

ValidateFail ==
    /\ phase = "validate"
    /\ Validated.fatal # ""
    /\ fatal' = Validated.fatal
    /\ phase' = "failed"
    /\ UNCHANGED <<manifests, cmd, produced_artifact, plan, projects, stack, built, link_libraries>>

Unbuilt == (DOMAIN projects) \ (Range(built) \cup {RootName})

\* build_all's loop: the next dependency in the map's iteration order is
\* adapted and built, and its library is pushed if the build produced one
BuildDependency ==
    /\ phase = "build"
    /\ \E name \in Unbuilt, produced \in BOOLEAN :
        /\ projects' = [projects EXCEPT ![name].config =
                          adapt_to_workspace(@, projects[RootName].config)]
        /\ built' = Append(built, name)
        /\ link_libraries' = IF produced THEN Append(link_libraries, lib_path(name))
                             ELSE link_libraries
        /\ produced_artifact' = IF produced THEN produced_artifact \cup {name}
                                ELSE produced_artifact
    /\ UNCHANGED <<manifests, cmd, plan, stack, phase, fatal>>

\* build_all after the loop: the root is linked with link_libraries
BuildRoot ==
    /\ phase = "build"
    /\ Unbuilt = {}
    /\ projects' = [projects EXCEPT ![RootName].config.link_libraries = link_libraries]
    /\ built' = Append(built, RootName)
    /\ phase' = IF Len(plan.targets) > 1 THEN "next" ELSE "done"
    /\ UNCHANGED <<manifests, cmd, produced_artifact, plan, stack, fatal, link_libraries>>

\* env.build() of the next project fails: env.fail(error) ends the process
BuildFail ==
    /\ phase = "build"
    /\ fatal' = "BuildError"
    /\ phase' = "failed"
    /\ UNCHANGED <<manifests, cmd, produced_artifact, plan, projects, stack, built, link_libraries>>

\* the specified target is matched: build_all is called for the first target
SelectTarget ==
    /\ phase = "select"
    /\ select_targets(manifests[RootDir], cmd).fatal = ""
    /\ plan' = [targets |-> select_targets(manifests[RootDir], cmd).targets,
                link_libraries |-> link_libraries]
    /\ phase' = "build"
    /\ UNCHANGED <<manifests, cmd, produced_artifact, projects, stack, fatal, built, link_libraries>>

SelectFail ==
    /\ phase = "select"
    /\ select_targets(manifests[RootDir], cmd).fatal # ""
    /\ fatal' = select_targets(manifests[RootDir], cmd).fatal
    /\ phase' = "failed"
    /\ UNCHANGED <<manifests, cmd, produced_artifact, plan, projects, stack, built, link_libraries>>

\* the loop over the supported targets of target all: build_all is called
\* for the next target, with the link_libraries main collected
NextTarget ==
    /\ phase = "next"
    /\ plan' = [plan EXCEPT !.targets = Tail(@)]
    /\ built' = <<>>
    /\ link_libraries' = plan.link_libraries
    /\ produced_artifact' = {}
    /\ phase' = "build"
    /\ UNCHANGED <<manifests, cmd, projects, stack, fatal>>

graphRest ==
    <<fs, file_edit_times, predVars, buildVars, taskVars, outputVars,
      flagVars>>

GraphNext ==
    \/ Start /\ UNCHANGED graphRest
    \/ AccumulateDependency /\ UNCHANGED graphRest
    \/ AccumulateFail /\ UNCHANGED graphRest
    \/ AccumulateReturn /\ UNCHANGED graphRest
    \/ ValidateOk /\ UNCHANGED graphRest
    \/ ValidateFail /\ UNCHANGED graphRest
    \/ SelectTarget /\ UNCHANGED graphRest
    \/ SelectFail /\ UNCHANGED graphRest
    \/ NextTarget /\ UNCHANGED graphRest
    \/ BuildDependency /\ UNCHANGED graphRest
    \/ BuildRoot /\ UNCHANGED graphRest
    \/ BuildFail /\ UNCHANGED graphRest

GraphSpec == GraphInit /\ [][GraphNext]_vars

\* resolution runs on: a call of accumulate_dependencies that can take its
\* next step eventually takes it
ResolveNext ==
    /\ Start \/ AccumulateDependency \/ AccumulateFail \/ AccumulateReturn
    /\ UNCHANGED graphRest
GraphFairSpec == GraphInit /\ [][GraphNext]_vars /\ WF_vars(ResolveNext)

(***************************************************************************)
(* Claims about project graph resolution (GraphFairSpec).                  *)
(***************************************************************************)
\* the dependency graph of the manifests, by canonical path
Edges(dir) == Range(manifests[dir].dependencies)
RECURSIVE ReachableFrom(_)
ReachableFrom(S) ==
    LET T == S \cup UNION {Edges(dir) : dir \in S}
    IN IF T = S THEN S ELSE ReachableFrom(T)
Reachable == ReachableFrom({RootDir})
HasCycle == \E dir \in Reachable : dir \in ReachableFrom(Edges(dir))
SameNameReachable ==
    \E p, q \in Reachable : p # q /\ manifests[p].name = manifests[q].name
Resolving == phase \in {"start", "accumulate"}

\* C9: graph cycles rejected.  When a cycle of the dependency graph can be
\* reached from the root (a project that depends on itself included),
\* resolution ends in a fatal error, and no project build has started
\* before it: resolution is never left except by the failure.
C9_CyclesRejected ==
    /\ [](HasCycle => ((Resolving \/ phase = "failed") /\ built = <<>>))
    /\ (HasCycle ~> phase = "failed")

\* a cycle has been walked until a reference count passed the ceiling
C9_Witness ==
    /\ HasCycle /\ phase = "failed"
    /\ fatal = "Loop found in dependency graph."
    /\ \E name \in DOMAIN projects : projects[name].ref_count > RefCountCeiling

\* C10: name uniqueness.  When two manifests with different canonical paths
\* that can be reached from the root (the root included) declare the same
\* name, resolution ends in a fatal error; the map holds under each name
\* the one path of a manifest of that name, and once resolution has passed
\* every reachable manifest is the one the map holds under its name.
C10_NameUniqueness ==
    /\ [](SameNameReachable => ((Resolving \/ phase = "failed") /\ built = <<>>))
    /\ (SameNameReachable ~> phase = "failed")
    /\ [](\A name \in DOMAIN projects :
            manifests[projects[name].config_path].name = name)
    /\ [](phase \in {"validate", "select", "build", "next", "done"} =>
            \A dir \in Reachable :
                /\ manifests[dir].name \in DOMAIN projects
                /\ projects[manifests[dir].name].config_path = dir)

\* a second reachable manifest of a name in the map has been met
C10_Witness ==
    /\ SameNameReachable /\ ~HasCycle /\ phase = "failed"
    /\ fatal = "Two projects in dependency graph found with the same name"

\* C11: dependency-order build.  A project is built only after every project
\* it depends on has been built: the projects are built leaves first, the
\* root last.
C11_DependencyOrder ==
    \A i \in 1..Len(built) :
        \A dep \in Range(projects[built[i]].dep_names) :
            \E j \in 1..(i - 1) : built[j] = dep

(***************************************************************************)
(* OptionSpec: abs run in workspaces whose manifests differ in one kind of *)
(* attribute at a time.  The root depends on libs/one, which depends on    *)
(* libs/two (chain), or on both libraries (fan); the C++ options, the      *)
(* output types or the supported targets of the three projects vary, and   *)
(* the workspace is built for the host, or for both of its targets.  A     *)
(* project without dependencies is run under every command line on every   *)
(* host.                                                                   *)
(***************************************************************************)
Shaped(shape, cxx, types, targets) ==
    LET names == (RootDir :> "app") @@ (LibOne :> "one") @@ (LibTwo :> "two")
        deps == IF shape = "chain"
                THEN (RootDir :> <<LibOne>>) @@ (LibOne :> <<LibTwo>>)
                       @@ (LibTwo :> <<>>)
                ELSE (RootDir :> <<LibOne, LibTwo>>) @@ (LibOne :> <<>>)
                       @@ (LibTwo :> <<>>)
    IN [dir \in Dirs |->
          [ProjectConfig(names[dir], types[dir], <<>>, deps[dir])
             EXCEPT !.cxx_options = cxx[dir], !.supported_targets = targets[dir]]]

OptionWorkspaces ==
    LET Options == [rtti : BOOLEAN, async_await : BOOLEAN,
                    standard : {"c++11", "c++14", "c++17", "c++20"}]
        WindowsLists == {t \in TargetLists : Range(t) \subseteq {"Win32", "Win64"}}
        cxx0 == [dir \in Dirs |-> CxxOptionsDefault]
        types0 == [dir \in Dirs |->
                     IF dir = RootDir THEN "ConsoleApp" ELSE "StaticLibrary"]
        targets0 == [dir \in Dirs |-> <<"Win64">>]
    IN UNION {
         {Shaped(shape, cxx, types0, targets0) :
            cxx \in {c \in [Dirs -> Options] : c[RootDir].async_await}}
         \cup {Shaped(shape, cxx0, types, targets0) :
            types \in {t \in [Dirs -> OutputTypes] : t[RootDir] = "ConsoleApp"}}
         \cup {Shaped(shape, cxx0, types0, targets) : targets \in [Dirs -> WindowsLists]}
       : shape \in {"chain", "fan"}}

\* workspaces for two targets, where libs/one declares a C++ standard of its
\* own: they are built for the target all
TwoTargetWorkspaces ==
    LET cxx(standard) ==
            [dir \in Dirs |->
               IF dir = LibOne
               THEN [CxxOptionsDefault EXCEPT !.standard = standard]
               ELSE CxxOptionsDefault]
        types0 == [dir \in Dirs |->
                     IF dir = RootDir THEN "ConsoleApp" ELSE "StaticLibrary"]
        both == [dir \in Dirs |-> <<"Win32", "Win64">>]
    IN {Shaped(shape, cxx(standard), types0, both) :
          shape \in {"chain", "fan"}, standard \in {"c++14", "c++20"}}
BuildForAll == [sub_command |-> "build", target |-> "all", host |-> "Win64"]

OptionInvocations ==
    {[manifests |-> w, cmd |-> BuildForHost] : w \in OptionWorkspaces}
      \cup {[manifests |-> w, cmd |-> BuildForAll] : w \in TwoTargetWorkspaces}
      \cup RootInvocations
      \cup {[manifests |-> w, cmd |-> BuildForHost] :
              w \in {v \in Workspaces :
                       /\ v[RootDir].dependencies = <<LibOne, LibTwo>>
                       /\ v[LibOne].dependencies = <<>>
                       /\ v[LibTwo].dependencies = <<>>}}

OptionInit == \E inv \in OptionInvocations : MainStarted(inv)

OptionSpec == OptionInit /\ [][GraphNext]_vars

\* validate_dependencies has returned: the root is marked visited
ValidationPassed ==
    /\ RootName \in DOMAIN projects
    /\ projects[RootName].visited

Dependencies == Reachable \ {RootDir}

\* C12: C++ options compatibility.  Validation accepts a dependency exactly
\* when its rtti equals the root's, its async_await equals the root's, and
\* its C++ standard is less than or equal to the root's under the order
\* c++11 < c++14 < c++17 < c++20: when validation has passed every
\* dependency satisfies the rule, and the run fails over the C++ options
\* only when some dependency breaks it.
C12_CxxCompatibility ==
    LET order == <<"c++11", "c++14", "c++17", "c++20">>
        position(standard) == CHOOSE i \in 1..4 : order[i] = standard
        root == manifests[RootDir].cxx_options
        accepted(dir) ==
            LET dep == manifests[dir].cxx_options
            IN /\ dep.rtti = root.rtti
               /\ dep.async_await = root.async_await
               /\ position(dep.standard) <= position(root.standard)
    IN /\ ValidationPassed => \A dir \in Dependencies : accepted(dir)
       /\ fatal = "C++ options are incompatible with those of the root project"
            => \E dir \in Dependencies : ~accepted(dir)
       /\ (/\ \A dir \in Dependencies :
                 /\ accepted(dir)
                 /\ manifests[dir].output_type = "StaticLibrary"
           /\ \A d \in Reachable : \A dir \in Edges(d) :
                 Range(manifests[d].supported_targets)
                   \subseteq Range(manifests[dir].supported_targets))
            => fatal \notin
                 {"C++ options are incompatible with those of the root project",
                  "Only static library dependencies are supported at this time.",
                  "dependency does not support target"}

\* a c++17 root has passed validation and is built with a c++14 dependency
C12_Witness ==
    /\ phase = "done"
    /\ manifests[RootDir].cxx_options.standard = "c++17"
    /\ \E dir \in Dependencies : manifests[dir].cxx_options.standard = "c++14"
    /\ \E i \in 1..Len(built) : built[i] # RootName

\* an edge of the reachable graph leads to a project that is not a static
\* library
NonStaticEdge ==
    \E d \in Reachable : \E dir \in Edges(d) :
        manifests[dir].output_type # "StaticLibrary"

\* C13: static dependencies only.  Whenever graph validation passes, every
\* project that is a dependency of a project in the graph is a static
\* library; a dependency edge to a gui app, a console app or a dynamic
\* library always ends in a fatal error, before any build starts.
C13_StaticDependenciesOnly ==
    /\ [](ValidationPassed => ~NonStaticEdge)
    /\ [](NonStaticEdge =>
            /\ built = <<>>
            /\ Resolving \/ phase \in {"validate", "failed"}
            /\ phase = "failed" => fatal # "")
    /\ [][(NonStaticEdge /\ phase = "validate") => phase' = "failed"]_vars

\* the walk has loaded a dynamic library that the library libs/one depends
\* on, and validation has ended the run with the error about it
C13_Witness ==
    /\ manifests[LibOne].dependencies = <<LibTwo>>
    /\ manifests[LibTwo].output_type = "DynamicLibrary"
    /\ "two" \in DOMAIN projects
    /\ phase = "failed"
    /\ fatal = "Only static library dependencies are supported at this time."

\* C14: supported targets of dependencies.  Whenever graph validation
\* passes, every project of the graph, a direct or a transitive dependency of
\* the root, declares every target listed in the root's supported_targets.
C14_TargetsCovered ==
    ValidationPassed =>
        \A dir \in Dependencies :
            \A platform \in Range(manifests[RootDir].supported_targets) :
                \E i \in 1..Len(manifests[dir].supported_targets) :
                    manifests[dir].supported_targets[i] = platform

\* a root for two targets has passed validation with a transitive dependency
\* that lists the two targets in the other order
C14_Witness ==
    /\ ValidationPassed
    /\ manifests[RootDir].supported_targets = <<"Win32", "Win64">>
    /\ manifests[RootDir].dependencies = <<LibOne>>
    /\ manifests[LibOne].dependencies = <<LibTwo>>
    /\ manifests[LibTwo].supported_targets = <<"Win64", "Win32">>
    /\ phase = "done"

\* the command is run or debug
Running == cmd.sub_command \in {"run", "debug"}

\* the run has reached the point where a project build starts
BuildStarted == phase \in {"build", "next", "done"} \/ fatal = "BuildError"

RootIsLibrary ==
    manifests[RootDir].output_type \in {"DynamicLibrary", "StaticLibrary"}

\* the target is the one the command line asks for, and the host can execute
\* artifacts built for it: same operating system, and no wider a word
Runnable(target) ==
    LET windows(platform) == platform \in {"Win32", "Win64"}
        bits(platform) == IF platform \in {"Win32", "Linux32"} THEN 32 ELSE 64
    IN /\ CASE cmd.target = "all" -> FALSE
            [] cmd.target = "host" -> TRUE
            [] cmd.target = "win32" -> target = "Win32"
            [] cmd.target = "win64" -> target = "Win64"
       /\ windows(cmd.host) = windows(target)
       /\ bits(cmd.host) >= bits(target)

RunPossible ==
    /\ ~RootIsLibrary
    /\ \E target \in Range(manifests[RootDir].supported_targets) : Runnable(target)

\* C15: subcommand gating.  Whenever run or debug reaches the point where a
\* project build starts, the root project is not a library, the requested
\* target is not the pseudo-target all, the chosen target is listed in the
\* root's supported_targets and the host can execute artifacts built for it;
\* in every other case run and debug fail before any build.
C15_SubcommandGating ==
    /\ [](Running /\ BuildStarted =>
            /\ ~RootIsLibrary
            /\ cmd.target # "all"
            /\ Len(plan.targets) = 1
            /\ plan.targets[1] \in Range(manifests[RootDir].supported_targets)
            /\ Runnable(plan.targets[1]))
    /\ [](Running /\ ~RunPossible =>
            /\ ~BuildStarted
            /\ built = <<>>
            /\ phase = "failed" => fatal # "")
    /\ [][(Running /\ ~RunPossible /\ phase = "select") => phase' = "failed"]_vars
    /\ [][(Running /\ RootIsLibrary /\ phase = "start") => phase' = "failed"]_vars

\* debug for the host on a 64-bit Windows machine has built and started a
\* project that supports 32-bit Windows only among the Windows targets
C15_Witness ==
    /\ cmd = [sub_command |-> "debug", target |-> "host", host |-> "Win64"]
    /\ manifests[RootDir].supported_targets = <<"Linux64", "Win32">>
    /\ plan.targets = <<"Win32">>
    /\ built = <<RootName>>
    /\ phase = "done"

(***************************************************************************)
(* OutputSpec: the compiles of one build send what cl.exe prints, cut into *)
(* chunks, to the consumers that run_guaranteed spawns, one per compile    *)
(* task; the consumers run concurrently and share the                      *)
(* unique_compiler_output set of the BuildEnvironment behind its mutex.    *)
(* A chunk is the sequence of its lines.                                   *)
(***************************************************************************)
Chunks ==
    {<<header>> \o rest :
        header \in {"a.h(1): warning C4101", "a.h(2): warning C4244",
                    "a.h(3): error C2065"},
        rest \in {<<>>, <<"a.cpp(7): note: see reference">>,
                  <<"b.cpp(9): note: see reference">>}}

\* CompilerOutput: Begun, Warning(chunk), Error(chunk)
CompilerOutputs ==
    {[kind |-> "Begun", s |-> <<"a.cpp">>]}
      \cup {[kind |-> "Warning", s |-> s] :
              s \in {c \in Chunks : c[1] # "a.h(3): error C2065"}}
      \cup {[kind |-> "Error", s |-> s] :
              s \in {c \in Chunks : c[1] = "a.h(3): error C2065"}}

\* the key of a chunk in the set, were it the whole text of the chunk
whole_chunk(s) == s

\* s.lines().next().unwrap()
first_line(s) == s[1]

\* an insert that reports every value as new
insert_anew(set, value) == [set |-> set \cup {value}, fresh |-> TRUE]

\* HashSet::insert under the lock of the mutex: the set with the value, and
\* whether the value was new to it
insert(set, value) == [set |-> set \cup {value}, fresh |-> value \notin set]

OutputInit ==
    /\ OutputIdle
    /\ FlagIdle
    /\ fs = EmptyMap
    /\ file_edit_times = EmptyMap
    /\ BuildIdle
    /\ PredIdle
    /\ TaskIdle
    /\ GraphIdle

\* every chunk is pushed onto the warning cache
pushes_all(output) == TRUE
\* matches!(output, CompilerOutput::Warning(_))
pushes(output) == output.kind = "Warning"

\* the consumer of task t takes an output from its channel; for a chunk it
\* locks the set and inserts the first line of the chunk
Handle(t, output) ==
    /\ consumer[t].pc = "recv"
    /\ received' = Append(received, [task |-> t, kind |-> output.kind,
                                     s |-> output.s])
    /\ IF output.kind = "Begun"
       THEN UNCHANGED <<unique_compiler_output, consumer>>
       ELSE LET r == insert(unique_compiler_output, first_line(output.s))
            IN /\ unique_compiler_output' = r.set
               /\ consumer' = [consumer EXCEPT
                     ![t] = [pc |-> "print", output |-> output,
                             fresh |-> r.fresh]]
    /\ UNCHANGED <<displayed, warning_cache>>

\* the rest of the turn, the lock released: the chunk is printed when its
\* first line was new to the set, a warning is pushed onto the warning cache
Finish(t) ==
    /\ consumer[t].pc = "print"
    /\ displayed' = IF consumer[t].fresh
                    THEN Append(displayed, consumer[t].output.s)
                    ELSE displayed
    /\ warning_cache' =
          IF pushes(consumer[t].output)
          THEN [warning_cache EXCEPT ![t] = Append(@, consumer[t].output.s)]
          ELSE warning_cache
    /\ consumer' = [consumer EXCEPT ![t] = Receiving]
    /\ UNCHANGED <<unique_compiler_output, received>>

\* one turn of the loop of a consumer begins with an output of its compile
Consume ==
    /\ Len(received) < MaxOutputs
    /\ \E t \in CompileTasks, output \in CompilerOutputs : Handle(t, output)

Display == \E t \in CompileTasks : Finish(t)

\* the channel of a compile is closed: its consumer returns the warning
\* cache, which is written; the next compile of the task starts with an
\* empty one
ConsumerReturns ==
    \E t \in CompileTasks :
        /\ consumer[t].pc = "recv"
        /\ warning_cache[t] # <<>>
        /\ warning_cache' = [warning_cache EXCEPT ![t] = <<>>]
        /\ UNCHANGED <<unique_compiler_output, displayed, received, consumer>>

outputRest ==
    <<fs, file_edit_times, predVars, buildVars, taskVars, graphVars,
      flagVars, pipeVars>>

OutputNext ==
    \/ Consume /\ UNCHANGED outputRest
    \/ Display /\ UNCHANGED outputRest
    \/ ConsumerReturns /\ UNCHANGED outputRest

OutputSpec == OutputInit /\ [][OutputNext]_vars

(***************************************************************************)
(* Claims about the compiler output (OutputSpec).                          *)
(***************************************************************************)
\* the number of times a chunk has been displayed
Displays(s) == Cardinality({j \in 1..Len(displayed) : displayed[j] = s})
\* every consumer has finished the turn of the output it took
Quiet == \A t \in CompileTasks : consumer[t].pc = "recv"

\* C20, as stated: warning display exactly once.  Every warning chunk that
\* has passed through the deduplicator during the build has been displayed
\* exactly once (once the consumers have finished their turns).
C20_EveryChunkOnce ==
    Quiet =>
        \A i \in 1..Len(received) :
            received[i].kind = "Warning" => Displays(received[i].s) = 1

\* C20, amended: for every chunk that has passed through the deduplicator,
\* exactly one chunk that starts with its first line has been displayed: the
\* first chunk with that first line that was passed.  Later chunks with the
\* same first line are not displayed, whether their text is the same or not.
C20_FirstLineOnce ==
    Quiet =>
        \A i \in 1..Len(received) :
            received[i].kind # "Begun" =>
                LET line == Head(received[i].s)
                    first == CHOOSE k \in 1..i :
                                /\ received[k].kind # "Begun"
                                /\ Head(received[k].s) = line
                                /\ \A h \in 1..(k - 1) :
                                      \/ received[h].kind = "Begun"
                                      \/ Head(received[h].s) # line
                IN /\ Cardinality({j \in 1..Len(displayed) :
                                      Head(displayed[j]) = line}) = 1
                   /\ Displays(received[first].s) = 1
                   /\ received[i].s # received[first].s
                        => Displays(received[i].s) = 0

\* two sources have produced the same warning chunk and a third a chunk
\* with the same first line and another note: one chunk was displayed
C20_Witness ==
    /\ Quiet
    /\ Len(received) = 3
    /\ received[1].s = received[2].s
    /\ received[1].task # received[2].task
    /\ received[1].kind = "Warning"
    /\ received[3].kind = "Warning"
    /\ received[3].s # received[1].s
    /\ Head(received[3].s) = Head(received[1].s)
    /\ displayed = <<received[1].s>>

\* C21: diagnostic deduplication under concurrency.  Whatever the
\* interleaving of the consumers of the compile tasks that share the set,
\* at every moment at most one printed chunk (warning or error) starts with
\* any given first line.
C21_OnePerFirstLine ==
    \A j, k \in 1..Len(displayed) :
        Head(displayed[j]) = Head(displayed[k]) => j = k

\* the consumers of two tasks hold a chunk with the same first line at the
\* same time, both past the insert and neither printed yet, and the chunk
\* of the task that inserted second is another text
C21_Witness ==
    /\ consumer[1].pc = "print" /\ consumer[2].pc = "print"
    /\ first_line(consumer[1].output.s) = first_line(consumer[2].output.s)
    /\ consumer[1].output.s # consumer[2].output.s
    /\ consumer[1].fresh /\ ~consumer[2].fresh
    /\ displayed = <<>>

(***************************************************************************)
(* FlagSpec: CompileFlags::build (src/build_manager.rs), the command line  *)
(* of cl.exe realised from the flags a task has chained.                   *)
(***************************************************************************)
MaxFlags == 2

\* enum CompileFlag, over a few payloads
CompileFlag ==
    {[variant |-> "Concrete", flag |-> "/c"]}
      \cup {[variant |-> "CxxStandard", standard |-> s] :
              s \in {"Cxx11", "Cxx14", "Cxx17", "Cxx20"}}
      \cup {[variant |-> "Rtti", enabled |-> b] : b \in BOOLEAN}
      \cup {[variant |-> "AsyncAwait", enabled |-> b] : b \in BOOLEAN}
      \cup {[variant |-> "SrcPath", path |-> "a.cpp"]}
      \cup {[variant |-> "ObjPath", path |-> "a.obj"]}
      \cup {[variant |-> "PchPath", path |-> "pch.pch", generate |-> b] :
              b \in BOOLEAN}
      \cup {[variant |-> "Define", name |-> "NDEBUG", value |-> "1"]}
      \cup {[variant |-> "IncludePath", path |-> "include"]}

\* the vectors CompileFlags can hold, up to MaxFlags flags
RECURSIVE FlagLists(_)
FlagLists(n) ==
    IF n = 0 THEN {<<>>}
    ELSE FlagLists(n - 1)
           \cup {Append(l, f) : l \in {k \in FlagLists(n - 1) : Len(k) = n - 1},
                                f \in CompileFlag}

\* the prefix after the path
elbuod(flag, path) == path \o flag
\* fn double(flag, path): the path pushed onto the prefix
double(flag, path) == flag \o path

\* the body of the loop of build: the tokens pushed for one flag
pushed(flag) ==
    CASE flag.variant = "Concrete" -> <<flag.flag>>
      [] flag.variant = "CxxStandard" ->
            (CASE flag.standard \in {"Cxx11", "Cxx14"} -> <<"/std:c++14">>
               [] flag.standard = "Cxx17" -> <<"/std:c++17">>
               [] flag.standard = "Cxx20" -> <<"/std:c++latest">>)
      [] flag.variant = "Rtti" ->
            IF flag.enabled THEN <<"/GR">> ELSE <<"/GR-">>
      [] flag.variant = "AsyncAwait" ->
            IF flag.enabled THEN <<"/await">> ELSE <<>>
      [] flag.variant = "SrcPath" -> <<flag.path>>
      [] flag.variant = "ObjPath" -> <<double("/Fo", flag.path)>>
      [] flag.variant = "PchPath" ->
            <<double("/Fp", flag.path)>>
              \o (IF flag.generate THEN <<"/Ycpch.h">> ELSE <<"/Yupch.h">>)
      [] flag.variant = "Define" ->
            <<(("/D" \o flag.name) \o "=") \o flag.value>>
      [] flag.variant = "IncludePath" -> <<"/I", flag.path>>

\* CompileFlags::build: for flag in &self.flags { ... } flags
RECURSIVE build(_)
build(flags) ==
    IF flags = <<>> THEN <<>> ELSE pushed(Head(flags)) \o build(Tail(flags))

FlagInit ==
    /\ compile_flags \in FlagLists(MaxFlags)
    /\ command_line = NotBuilt
    /\ artifact_map = NoArtifacts
    /\ fs = EmptyMap
    /\ file_edit_times = EmptyMap
    /\ BuildIdle
    /\ PredIdle
    /\ TaskIdle
    /\ GraphIdle
    /\ OutputIdle

\* compile_cxx realises the flags for run_cmd
Build ==
    /\ ~command_line.built
    /\ command_line' = [built |-> TRUE, args |-> build(compile_flags)]
    /\ UNCHANGED <<compile_flags, artifact_map>>

FlagNext ==
    Build /\ UNCHANGED <<fs, file_edit_times, predVars, buildVars, taskVars,
                         graphVars, outputVars>>

FlagSpec == FlagInit /\ [][FlagNext]_vars

(***************************************************************************)
(* Claims about the command line (FlagSpec).                               *)
(***************************************************************************)
\* the tokens a flag stands for, by the table of the flag variants
Expansion(flag) ==
    LET v == flag.variant
    IN IF v = "Concrete" THEN <<flag.flag>>
       ELSE IF v = "CxxStandard" /\ flag.standard = "Cxx11" THEN <<"/std:c++14">>
       ELSE IF v = "CxxStandard" /\ flag.standard = "Cxx14" THEN <<"/std:c++14">>
       ELSE IF v = "CxxStandard" /\ flag.standard = "Cxx17" THEN <<"/std:c++17">>
       ELSE IF v = "CxxStandard" /\ flag.standard = "Cxx20"
            THEN <<"/std:c++latest">>
       ELSE IF v = "Rtti" /\ flag.enabled THEN <<"/GR">>
       ELSE IF v = "Rtti" THEN <<"/GR-">>
       ELSE IF v = "AsyncAwait" /\ flag.enabled THEN <<"/await">>
       ELSE IF v = "AsyncAwait" THEN <<>>
       ELSE IF v = "Define" THEN <<"/DNDEBUG=1">>
       ELSE IF v = "IncludePath" THEN <<"/I", "include">>
       ELSE IF v = "SrcPath" THEN <<"a.cpp">>
       ELSE IF v = "ObjPath" THEN <<"/Foa.obj">>
       ELSE IF v = "PchPath" /\ flag.generate THEN <<"/Fppch.pch", "/Ycpch.h">>
       ELSE <<"/Fppch.pch", "/Yupch.h">>
\* where the tokens of the i-th flag start in the command line, less one
RECURSIVE Offset(_)
Offset(i) ==
    IF i = 1 THEN 0
    ELSE Offset(i - 1) + Len(Expansion(compile_flags[i - 1]))

\* C22: flag realisation.  The command line build returns is the
\* concatenation, in insertion order, of the expansions of the flags: the
\* tokens of each flag stand at the place after those of the flags before
\* it, and the command line holds no other token.
C22_FlagRealisation ==
    command_line.built =>
        /\ Len(command_line.args) = Offset(Len(compile_flags) + 1)
        /\ \A i \in 1..Len(compile_flags) :
              \A k \in 1..Len(Expansion(compile_flags[i])) :
                  command_line.args[Offset(i) + k]
                      = Expansion(compile_flags[i])[k]

\* a pch path to use, then an include path: four tokens in that order
C22_Witness ==
    /\ command_line.built
    /\ Len(compile_flags) = 2
    /\ compile_flags[1].variant = "PchPath" /\ ~compile_flags[1].generate
    /\ compile_flags[2].variant = "IncludePath"
    /\ command_line.args = <<"/Fppch.pch", "/Yupch.h", "/I", "include">>

(***************************************************************************)
(* OracleSpec: the edit-time oracle of one BuildEnvironment over a build.  *)
(* The cache starts empty; the build asks edit_time and                    *)
(* should_build_artifacts_impl in any order, and between the calls the     *)
(* files change: tools and the user write them, delete them, lock them.    *)
(***************************************************************************)
OraclePaths == {"p", "q"}
OracleTimes == 1..MaxTime
\* the path lists of the calls, and the filters: one that accepts every
\* path and one that leaves a path out
OracleSeqs == {<<>>, <<"p">>, <<"q">>, <<"p", "q">>}
OracleFilters == {OraclePaths, {"p"}}

OracleInit ==
    /\ fs \in [OraclePaths -> OracleTimes \cup {NoFile, IoError}]
    /\ file_edit_times = EmptyMap
    /\ answered = EmptyMap
    /\ predArgs = [deps |-> <<>>, arts |-> <<>>, filter |-> {}]
    /\ lastCall = NoCall
    /\ BuildIdle
    /\ TaskIdle
    /\ GraphIdle
    /\ OutputIdle
    /\ FlagIdle

\* self.edit_time(path, fallback)
Query ==
    \E path \in OraclePaths, fallback \in {0, U64Max} :
        LET r == edit_time(file_edit_times, fs, path, fallback)
        IN /\ file_edit_times' = r.cache
           /\ lastCall' =
                 [called |-> TRUE, op |-> "edit_time", path |-> path,
                  fallback |-> fallback, err |-> r.err,
                  time |-> IF r.err THEN <<>> ELSE <<r.time>>,
                  hit |-> path \in DOMAIN file_edit_times,
                  cached |-> DOMAIN file_edit_times,
                  earlier |-> IF path \in DOMAIN answered
                              THEN <<answered[path]>> ELSE <<>>]
           /\ answered' = IF r.err \/ path \in DOMAIN answered
                          THEN answered
                          ELSE answered @@ (path :> r.time)
           /\ predArgs' = [deps |-> <<>>, arts |-> <<>>, filter |-> {}]
           /\ UNCHANGED fs

\* self.should_build_artifacts_impl(deps, arts, filter); a positive answer
\* forgets the artifact paths
Check ==
    \E deps \in OracleSeqs, arts \in OracleSeqs, filter \in OracleFilters :
        LET r == should_build_artifacts_impl(file_edit_times, fs, deps, arts,
                                             filter)
        IN /\ file_edit_times' = r.cache
           /\ predArgs' = [deps |-> deps, arts |-> arts, filter |-> filter]
           /\ lastCall' =
                 [called |-> TRUE, op |-> "should_build", err |-> r.err,
                  result |-> r.should_build,
                  cached |-> DOMAIN file_edit_times]
           /\ answered' =
                 IF ~r.err /\ r.should_build
                 THEN [p \in (DOMAIN answered) \ Range(arts) |-> answered[p]]
                 ELSE answered
           /\ UNCHANGED fs

\* a file is written, created, deleted, or made unreadable
FileChange ==
    \E path \in OraclePaths, v \in OracleTimes \cup {NoFile, IoError} :
        /\ v # fs[path]
        /\ fs' = [fs EXCEPT ![path] = v]
        /\ lastCall' = NoCall
        /\ predArgs' = [deps |-> <<>>, arts |-> <<>>, filter |-> {}]
        /\ UNCHANGED <<file_edit_times, answered>>

oracleRest == <<buildVars, taskVars, graphVars, outputVars, flagVars>>

OracleNext ==
    \/ Query /\ UNCHANGED oracleRest
    \/ Check /\ UNCHANGED oracleRest
    \/ FileChange /\ UNCHANGED oracleRest

OracleSpec == OracleInit /\ [][OracleNext]_vars

(***************************************************************************)
(* Claims about the edit-time oracle over a build (OracleSpec).            *)
(***************************************************************************)
EditTimeCalled == lastCall.called /\ lastCall.op = "edit_time"
Checked == lastCall.called /\ lastCall.op = "should_build"

\* C24: edit-time memoisation.  An edit_time call for a path that an
\* earlier call has answered, with no forget of the path since, returns
\* the value of that earlier call, whatever the file has become and whatever
\* fallback is passed; a call that misses the cache for a file that does
\* not exist returns its own fallback and leaves it in the cache.
C24_Memoisation ==
    EditTimeCalled =>
        /\ lastCall.earlier # <<>> =>
              ~lastCall.err /\ lastCall.time = lastCall.earlier
        /\ (~lastCall.hit /\ fs[lastCall.path] = NoFile) =>
              /\ ~lastCall.err
              /\ lastCall.time = <<lastCall.fallback>>
              /\ lastCall.path \in DOMAIN file_edit_times
              /\ file_edit_times[lastCall.path] = lastCall.fallback

\* the second call for a path comes after the file has changed, with the
\* other fallback, and returns the time of the first call
C24_Witness ==
    /\ EditTimeCalled
    /\ lastCall.earlier # <<>>
    /\ lastCall.earlier[1] \in OracleTimes
    /\ fs[lastCall.path] \notin {lastCall.earlier[1], NoFile}
    /\ lastCall.fallback = U64Max
    /\ lastCall.time = lastCall.earlier

\* C25: fallback convention.  Whatever calls came before in the build, a
\* should_build_artifacts_impl call answers true when one of its dependency
\* paths does not exist on disk, and when one of its artifact paths that
\* the filter accepts does not exist on disk.
C25_FallbackConvention ==
    (Checked /\ ~lastCall.err) =>
        /\ (\E d \in Range(predArgs.deps) : fs[d] = NoFile) => lastCall.result
        /\ (\E a \in Range(predArgs.arts) \cap predArgs.filter :
                fs[a] = NoFile) => lastCall.result

\* C26: oracle I/O errors propagate.  An edit_time call that has to query
\* the metadata of a path and gets an error other than not-found returns
\* the error and leaves the path out of the cache; a
\* should_build_artifacts_impl call returns an error exactly when such a
\* query is among its dependencies or, the dependencies passing, among the
\* artifacts the filter accepts, and then no path that was cached is
\* forgotten.
C26_ErrorsPropagate ==
    /\ EditTimeCalled =>
          /\ lastCall.err <=> (~lastCall.hit /\ fs[lastCall.path] = IoError)
          /\ lastCall.err =>
                /\ lastCall.path \notin DOMAIN file_edit_times
                /\ DOMAIN file_edit_times = lastCall.cached
    /\ Checked =>
          LET fails(p) == p \notin lastCall.cached /\ fs[p] = IoError
              queried == Range(predArgs.deps)
                           \cup (Range(predArgs.arts) \cap predArgs.filter)
          IN /\ lastCall.err <=> \E p \in queried : fails(p)
             /\ lastCall.err =>
                   /\ lastCall.cached \subseteq DOMAIN file_edit_times
                   /\ \A p \in DOMAIN file_edit_times : fs[p] # IoError
                                                     \/ p \in lastCall.cached

\* a check with a cached artifact, which a positive answer would forget,
\* and a dependency that cannot be read: the artifact stays cached
C26_Witness ==
    /\ Checked /\ lastCall.err
    /\ predArgs.deps = <<"q">> /\ predArgs.arts = <<"p">>
    /\ fs["q"] = IoError
    /\ lastCall.cached = {"p"}
    /\ DOMAIN file_edit_times = {"p"}

(***************************************************************************)
(* PipeSpec: one compile of CxxTask::run_guaranteed (src/task.rs) through  *)
(* compile_cxx and run_cmd (src/build_manager.rs).  cl.exe writes its      *)
(* lines into the two pipes and exits; the stdout and stderr readers send  *)
(* the lines to the parser task, which cuts the stdout lines into chunks   *)
(* for the consumer task; run_cmd joins the readers and waits for the      *)
(* child, and run_guaranteed awaits the consumer before it writes the      *)
(* warning cache.  The tasks run in any interleaving.                      *)
(*                                                                         *)
(* A line is the sequence of its parts between the separators ": ", and a  *)
(* part the sequence of its words.                                         *)
(***************************************************************************)
MaxLines == 3

NameLine == <<<<"a.cpp">>>>
WarningLine == <<<<"a.h(1)">>, <<"warning", "C4101">>, <<"unreferenced">>>>
ErrorLine == <<<<"a.h(3)">>, <<"error", "C2065">>, <<"undeclared">>>>
FatalLine == <<<<"a.cpp(1)">>, <<"fatal", "error", "C1083">>>>
\* a line with a separator that no header word follows; the word warning
\* comes after a later separator
NoteLine == <<<<"a.h(1)">>, <<"note">>, <<"warning", "C4101">>>>
StdoutLines == {NameLine, WarningLine, ErrorLine, FatalLine, NoteLine}
StderrLines == {WarningLine}

RECURSIVE LineSeqs(_, _)
LineSeqs(lines, n) ==
    IF n = 0 THEN {<<>>}
    ELSE LineSeqs(lines, n - 1)
           \cup {Append(s, l) :
                   s \in {k \in LineSeqs(lines, n - 1) : Len(k) = n - 1},
                   l \in lines}

\* enum OutputLine
Stdout(line) == [stream |-> "Stdout", line |-> line]
Stderr(line) == [stream |-> "Stderr", line |-> line]

\* CompilerOutput values
Begun(line) == [kind |-> "Begun", s |-> <<line>>]
Warning(chunk) == [kind |-> "Warning", s |-> chunk]
Error(chunk) == [kind |-> "Error", s |-> chunk]

\* a part starts with the words
starts_with(part, words) ==
    /\ Len(part) >= Len(words)
    /\ \A i \in 1..Len(words) : part[i] = words[i]

\* fn state_transition: what follows the first ": " of the line
state_transition(line) ==
    IF Len(line) >= 2 /\ line[2] # <<>>
    THEN IF starts_with(line[2], <<"warning">>) THEN "InWarning"
         ELSE IF \/ starts_with(line[2], <<"error">>)
                 \/ starts_with(line[2], <<"fatal", "error">>)
         THEN "InError"
         ELSE "None"
    ELSE "None"

\* the parser task at its start
ParserStart == [state |-> "NoFileName", chunk |-> <<>>, at |-> "running"]

\* one turn of the loop of the parser task on a received line: the parser
\* after it and the outputs sent.  debug_assert! panics in a build with
\* debug assertions and is no code in a build without.
parse_line(parser_, received_, debug_assertions) ==
    LET line == received_.line
        transition == state_transition(line)
        stay == [parser |-> parser_, sent |-> <<>>]
    IN IF received_.stream # "Stdout" THEN stay
       ELSE IF parser_.state = "NoFileName"
       THEN [parser |-> [parser_ EXCEPT !.state = "Neutral"],
             sent |-> <<Begun(line)>>]
       ELSE IF parser_.state = "Neutral"
       THEN IF transition # "None"
            THEN [parser |-> [parser_ EXCEPT !.state = transition,
                                             !.chunk = <<line>>],
                  sent |-> <<>>]
            ELSE IF debug_assertions
            THEN [parser |-> [parser_ EXCEPT !.at = "panicked"],
                  sent |-> <<>>]
            ELSE stay
       ELSE IF transition # "None"
            THEN [parser |-> [parser_ EXCEPT !.state = transition,
                                             !.chunk = <<line>>],
                  sent |-> <<IF parser_.state = "InWarning"
                             THEN Warning(parser_.chunk)
                             ELSE Error(parser_.chunk)>>]
            ELSE [parser |-> [parser_ EXCEPT !.chunk = Append(@, line)],
                  sent |-> <<>>]

\* mutant of flush: the pending chunk is sent in every state of the parser
flush_always(parser_) == <<Warning(parser_.chunk)>>
\* match state { ... } after the loop: the pending chunk
flush(parser_) ==
    IF parser_.state = "InError" THEN <<Error(parser_.chunk)>>
    ELSE IF parser_.state = "InWarning" THEN <<Warning(parser_.chunk)>>
    ELSE <<>>

PipeInit ==
    /\ process \in [stdout : LineSeqs(StdoutLines, MaxLines),
                    stderr : LineSeqs(StderrLines, 1),
                    exited : {FALSE}, success : {FALSE}]
    /\ run \in [debug_assertions : BOOLEAN, run_cmd : {"running"},
                handle : {"running"}, returned : {FALSE}, file : {<<>>}]
    /\ readers = [stdout |-> 0, stderr |-> 0,
                  stdout_done |-> FALSE, stderr_done |-> FALSE]
    /\ line_channel = <<>>
    /\ parser = ParserStart
    /\ output_channel = <<>>
    /\ fed = <<>>
    /\ emitted = <<>>
    /\ unique_compiler_output = {}
    /\ warning_cache = [t \in CompileTasks |-> <<>>]
    /\ displayed = <<>>
    /\ received = <<>>
    /\ consumer = [t \in CompileTasks |-> Receiving]
    /\ fs = EmptyMap
    /\ file_edit_times = EmptyMap
    /\ BuildIdle
    /\ PredIdle
    /\ TaskIdle
    /\ GraphIdle
    /\ FlagIdle

\* the line channel takes a line while the parser holds its receiver
send_line(channel, line) ==
    IF parser.at = "running" THEN Append(channel, line) ELSE channel

\* stdout_reader: the next line of the pipe is sent to the parser
StdoutReader ==
    /\ ~readers.stdout_done
    /\ readers.stdout < Len(process.stdout)
    /\ readers' = [readers EXCEPT !.stdout = @ + 1]
    /\ line_channel' =
          send_line(line_channel, Stdout(process.stdout[readers.stdout + 1]))
    /\ fed' = Append(fed, Stdout(process.stdout[readers.stdout + 1]))
    /\ UNCHANGED <<process, parser, output_channel, run, emitted,
                   consumerVars>>

\* stdout_reader: end of file, the child has exited and the pipe is empty
StdoutEof ==
    /\ ~readers.stdout_done
    /\ readers.stdout = Len(process.stdout)
    /\ process.exited
    /\ readers' = [readers EXCEPT !.stdout_done = TRUE]
    /\ UNCHANGED <<process, line_channel, parser, output_channel, run, fed,
                   emitted, consumerVars>>

StderrReader ==
    /\ ~readers.stderr_done
    /\ readers.stderr < Len(process.stderr)
    /\ readers' = [readers EXCEPT !.stderr = @ + 1]
    /\ line_channel' =
          send_line(line_channel, Stderr(process.stderr[readers.stderr + 1]))
    /\ fed' = Append(fed, Stderr(process.stderr[readers.stderr + 1]))
    /\ UNCHANGED <<process, parser, output_channel, run, emitted,
                   consumerVars>>

StderrEof ==
    /\ ~readers.stderr_done
    /\ readers.stderr = Len(process.stderr)
    /\ process.exited
    /\ readers' = [readers EXCEPT !.stderr_done = TRUE]
    /\ UNCHANGED <<process, line_channel, parser, output_channel, run, fed,
                   emitted, consumerVars>>

\* Command::spawn fails: run_cmd returns false at once and drops the sender
\* of the lines; there is no process, no pipe and no reader
SpawnFails ==
    /\ run.run_cmd = "running"
    /\ ~process.exited
    /\ readers = [stdout |-> 0, stderr |-> 0,
                  stdout_done |-> FALSE, stderr_done |-> FALSE]
    /\ process' = [stdout |-> <<>>, stderr |-> <<>>, exited |-> TRUE,
                   success |-> FALSE]
    /\ readers' = [readers EXCEPT !.stdout_done = TRUE, !.stderr_done = TRUE]
    /\ run' = [run EXCEPT !.run_cmd = "false"]
    /\ UNCHANGED <<line_channel, parser, output_channel, fed, emitted,
                   consumerVars>>

\* cl.exe exits, its output in the pipes, with or without success
ChildExits ==
    /\ ~process.exited
    /\ \E success \in BOOLEAN :
          process' = [process EXCEPT !.exited = TRUE, !.success = success]
    /\ UNCHANGED <<readers, line_channel, parser, output_channel, run, fed,
                   emitted, consumerVars>>

\* run_cmd: tokio::join!(stdout_reader, stderr_reader), then child.wait()
RunCmdReturns ==
    /\ run.run_cmd = "running"
    /\ readers.stdout_done /\ readers.stderr_done
    /\ process.exited
    /\ run' = [run EXCEPT !.run_cmd = IF process.success THEN "true"
                                      ELSE "false"]
    /\ UNCHANGED <<process, readers, line_channel, parser, output_channel,
                   fed, emitted, consumerVars>>

\* the parser task receives a line; a panic drops its receiver, with the
\* lines in it, and its sender
ParserReceives ==
    /\ parser.at = "running"
    /\ line_channel # <<>>
    /\ LET r == parse_line(parser, Head(line_channel), run.debug_assertions)
       IN /\ parser' = r.parser
          /\ line_channel' = IF r.parser.at = "panicked" THEN <<>>
                             ELSE Tail(line_channel)
          /\ output_channel' = output_channel \o r.sent
          /\ emitted' = emitted \o r.sent
    /\ UNCHANGED <<process, readers, run, fed, consumerVars>>

\* recv gives None: the channel is empty and both readers have dropped
\* their senders; the pending chunk is sent and the task ends
ParserEnds ==
    /\ parser.at = "running"
    /\ line_channel = <<>>
    /\ readers.stdout_done /\ readers.stderr_done
    /\ parser' = [parser EXCEPT !.at = "ended"]
    /\ output_channel' = output_channel \o flush(parser)
    /\ emitted' = emitted \o flush(parser)
    /\ UNCHANGED <<process, readers, line_channel, run, fed, consumerVars>>

\* the consumer receives an output
ConsumerReceives ==
    /\ run.handle = "running"
    /\ output_channel # <<>>
    /\ Handle(1, Head(output_channel))
    /\ output_channel' = Tail(output_channel)
    /\ UNCHANGED <<process, readers, line_channel, parser, run, fed, emitted>>

ConsumerFinishes ==
    /\ Finish(1)
    /\ UNCHANGED pipeVars

\* mutant of sender_dropped: the sender of the outputs is never dropped
sender_kept(parser_) == FALSE
\* the parser task owns the sender of the outputs: it is dropped when the
\* task ends or panics
sender_dropped(parser_) == parser_.at # "running"

\* recv gives None: the channel is empty and the parser task has dropped
\* the sender; the consumer returns its warning cache
ConsumerEnds ==
    /\ run.handle = "running"
    /\ consumer[1].pc = "recv"
    /\ output_channel = <<>>
    /\ sender_dropped(parser)
    /\ run' = [run EXCEPT !.handle = "done"]
    /\ UNCHANGED <<process, readers, line_channel, parser, output_channel,
                   fed, emitted, consumerVars>>

\* run_guaranteed: compile_cxx has returned, handle.await gives the warning
\* cache, which is written to the warnings file
RunGuaranteedReturns ==
    /\ ~run.returned
    /\ run.run_cmd # "running"
    /\ run.handle = "done"
    /\ run' = [run EXCEPT !.returned = TRUE, !.file = <<warning_cache[1]>>]
    /\ UNCHANGED <<process, readers, line_channel, parser, output_channel,
                   fed, emitted, consumerVars>>

pipeRest ==
    <<fs, file_edit_times, predVars, buildVars, taskVars, graphVars, flagVars>>

PipeNext ==
    \/ SpawnFails /\ UNCHANGED pipeRest
    \/ StdoutReader /\ UNCHANGED pipeRest
    \/ StdoutEof /\ UNCHANGED pipeRest
    \/ StderrReader /\ UNCHANGED pipeRest
    \/ StderrEof /\ UNCHANGED pipeRest
    \/ ChildExits /\ UNCHANGED pipeRest
    \/ RunCmdReturns /\ UNCHANGED pipeRest
    \/ ParserReceives /\ UNCHANGED pipeRest
    \/ ParserEnds /\ UNCHANGED pipeRest
    \/ ConsumerReceives /\ UNCHANGED pipeRest
    \/ ConsumerFinishes /\ UNCHANGED pipeRest
    \/ ConsumerEnds /\ UNCHANGED pipeRest
    \/ RunGuaranteedReturns /\ UNCHANGED pipeRest

PipeSpec == PipeInit /\ [][PipeNext]_vars

\* the tasks of the runtime are scheduled and the process runs on: a step
\* that can be taken is eventually taken
PipeFairSpec == PipeInit /\ [][PipeNext]_vars /\ WF_vars(PipeNext)

(***************************************************************************)
(* Claims about one compile (PipeSpec).                                    *)
(***************************************************************************)
\* the kind of chunk a line is the header of: "<location>: warning ...",
\* "<location>: error ..." and "<location>: fatal error ..."
HeaderKind(line) ==
    IF line = WarningLine THEN "Warning"
    ELSE IF line \in {ErrorLine, FatalLine} THEN "Error"
    ELSE "None"
\* the stdout lines among the lines sent to the parser, in order
RECURSIVE StdoutOf(_)
StdoutOf(lines) ==
    IF lines = <<>> THEN <<>>
    ELSE (IF Head(lines).stream = "Stdout" THEN <<Head(lines).line>> ELSE <<>>)
         \o StdoutOf(Tail(lines))
\* where the header lines stand among the stdout lines after the first
HeadersAt(s) == {i \in 2..Len(s) : HeaderKind(s[i]) # "None"}
\* the chunk of the header at i: up to the line before the next header
ChunkAt(s, i) ==
    LET later == {j \in HeadersAt(s) : j > i}
        last == IF later = {} THEN Len(s) ELSE Min(later) - 1
    IN [kind |-> HeaderKind(s[i]), s |-> SubSeq(s, i, last)]
\* the outputs the parser owes for the stdout lines s
Segmentation(s) ==
    IF s = <<>> THEN <<>>
    ELSE <<Begun(s[1])>>
         \o [k \in 1..Cardinality(HeadersAt(s)) |->
               ChunkAt(s, CHOOSE i \in HeadersAt(s) :
                            Cardinality({j \in HeadersAt(s) : j <= i}) = k)]
\* the chunks of the Warning outputs, in order
RECURSIVE WarningsOf(_)
WarningsOf(outputs) ==
    IF outputs = <<>> THEN <<>>
    ELSE (IF Head(outputs).kind = "Warning" THEN <<Head(outputs).s>> ELSE <<>>)
         \o WarningsOf(Tail(outputs))
InputEnded == readers.stdout_done /\ readers.stderr_done
ParserGone == parser.at # "running"

\* C27: compiler output segmentation.  When the readers have sent their
\* last line and the parser task is over, the outputs it has sent are
\* Begun(first stdout line), then one chunk per header line among the later
\* stdout lines, in order: the header and the non-header stdout lines after
\* it, of the kind of its header, the last chunk included; the stderr lines
\* sent in between change nothing.
C27_Segmentation ==
    (InputEnded /\ ParserGone) => emitted = Segmentation(StdoutOf(fed))

\* the parser in Neutral takes a stdout line that is no header
NeutralUnexpected ==
    /\ parser.at = "running" /\ parser.state = "Neutral"
    /\ line_channel # <<>>
    /\ Head(line_channel).stream = "Stdout"
    /\ HeaderKind(Head(line_channel).line) = "None"
    /\ Len(line_channel') < Len(line_channel)
StaysNeutral ==
    /\ parser'.state = "Neutral" /\ parser'.at = "running"
    /\ emitted' = emitted
    /\ line_channel' = Tail(line_channel)

\* C28: an unexpected line in Neutral is recoverable.  When the parser in
\* state Neutral takes a stdout line that is neither a warning header nor
\* an error header, it stays in Neutral and running, sends nothing, and
\* the lines behind it are still in its channel to be processed.
C28_NeutralRecoverable == [][NeutralUnexpected => StaysNeutral]_vars

\* C29: warning cache contents.  After a successful compile the warnings
\* file holds exactly the chunks of the Warning outputs the parser sent, in
\* the order sent, displayed or not, and no Error chunk.
C29_WarningCacheContents ==
    (run.returned /\ run.run_cmd = "true") =>
        run.file = <<WarningsOf(emitted)>>

\* a successful compile with the same warning twice: both are in the file,
\* one was displayed
C29_Witness ==
    /\ run.returned /\ run.run_cmd = "true"
    /\ process.stdout = <<NameLine, WarningLine, WarningLine>>
    /\ run.file = <<<< <<WarningLine>>, <<WarningLine>> >>>>
    /\ displayed = << <<WarningLine>> >>

\* C30: no diagnostic is lost to the race between the exit of the process
\* and the parsing of its output.  When run_guaranteed returns, every
\* stdout line cl.exe wrote has been read and parsed, the parser has sent
\* every chunk of those lines, the last one included, the consumer has
\* handled them all, and the warnings file holds their warnings.
C30_NoDiagnosticLost ==
    run.returned =>
        /\ StdoutOf(fed) = process.stdout
        /\ line_channel = <<>> /\ parser.at = "ended"
        /\ emitted = Segmentation(process.stdout)
        /\ output_channel = <<>>
        /\ [i \in 1..Len(received) |->
              [kind |-> received[i].kind, s |-> received[i].s]] = emitted
        /\ run.file = <<WarningsOf(Segmentation(process.stdout))>>

(***************************************************************************)
(* Ownership of the precompiled header (Spec, with previous_valid_run      *)
(* applied to the files of the build).                                     *)
(***************************************************************************)
\* the compile tasks of the root pch.cpp that do not generate the PCH
NonGenerating == {CxxTask(SrcPch, o) : o \in PchOption \ {"GeneratePch"}}
\* the files of the build with the descriptor of pch.cpp written at a time
\* (or absent)
WithDescriptor(files, time) ==
    [p \in (DOMAIN files) \cup {src_deps_json_path(SrcPch)} |->
        IF p = src_deps_json_path(SrcPch) THEN time ELSE files[p]]
\* a build that follows a successful one and a write of pch.h
AfterPchTouch == ctx.prevOk /\ PchH \in ctx.touched /\ fs[SrcPch] # NoFile
\* the step invokes the compiler for the root pch.cpp
CompilesPch ==
    /\ Len(toolLog') = Len(toolLog) + 1
    /\ toolLog'[Len(toolLog')].tool = "cl"
    /\ toolLog'[Len(toolLog')].path = SrcPch
Regenerated ==
    AfterPchTouch =>
        /\ pc # "pch" => (toolLog # <<>> /\ Is(1, Cl(SrcPch)))
        /\ \A i \in 1..Len(from_root(fs)) :
              (i < src_idx /\ from_root(fs)[i] # SrcPch)
                  => Invoked(Cl(from_root(fs)[i]))
NeverReused ==
    fs[SrcPch] # NoFile =>
        \A t \in NonGenerating, time \in (1..MaxTime) \cup {NoFile},
           d \in {"valid", "corrupt"} :
            ~previous_valid_run(file_edit_times, WithDescriptor(fs, time),
                                [j \in Descriptors |-> d], t).result.ok

\* C31: precompiled header ownership.  When src/pch.cpp exists, the compiler
\* is invoked for the root pch.cpp by the PCH generation step only (the step
\* before compile_directory, never the loop over the sources); a compile
\* task of pch.cpp that does not generate the PCH gets no previous run to
\* reuse from previous_valid_run; and in the build that follows a successful
\* build and a write of pch.h, the first tool is the compiler on pch.cpp and
\* no other source is passed over without a compile.
C31_PchOwnership ==
    /\ [][CompilesPch => (pc = "pch" /\ fs[SrcPch] # NoFile)]_vars
    /\ [](NeverReused /\ Regenerated)

\* the build after a write of pch.h has generated the precompiled header,
\* compiled a.cpp and b.cpp with it, and linked
C31_Witness ==
    /\ AfterPchTouch /\ ctx.touched = {PchH}
    /\ pc = "idle" /\ result = "Ok"
    /\ Len(toolLog) >= 4
    /\ toolLog[1] = Cl(SrcPch) /\ toolLog[2] = Cl(SrcA)
    /\ toolLog[3] = Cl(SrcB) /\ toolLog[4] = Link(exe_path)

(***************************************************************************)
(* Claims about the walk of accumulate_dependencies (GraphFairSpec).       *)
(***************************************************************************)
\* the for loop of the innermost call is at a dependency whose name is in
\* the project map already
MeetsKnown ==
    /\ phase = "accumulate"
    /\ Top.i <= Len(manifests[Top.config_path].dependencies)
    /\ manifests[manifests[Top.config_path].dependencies[Top.i]].name
         \in DOMAIN projects

\* C32: no re-recursion.  In a graph without a cycle and without two
\* manifests of one name, when the walk meets a dependency that is in the
\* project map already, the turn of the loop enters no further call of
\* accumulate_dependencies: the dependencies of that project are not
\* traversed again.
C32_NoReRecursion ==
    [][(MeetsKnown /\ ~HasCycle /\ ~SameNameReachable /\ phase' = "accumulate")
          => Len(stack') = Len(stack)]_vars

(***************************************************************************)
(* Claims about the link libraries of the root (GraphFairSpec).            *)
(***************************************************************************)
\* the link_libraries of the manifests that can be reached from the root
Inherited == UNION {Range(manifests[dir].link_libraries) : dir \in Reachable}
\* build_all has built the root for the current target
RootBuilt == phase \in {"next", "done"}
\* what the root was linked with
LinkedWith == projects[RootName].config.link_libraries

\* C33: inherited link libraries.  When build_all has built the root, the
\* link libraries the root was built with hold no entry twice and are the
\* link_libraries of the manifests of the root and of every project that
\* can be reached from it, plus the <name>.lib path of every dependency
\* whose build produced an artifact, and nothing else.
C33_InheritedLinkLibraries ==
    RootBuilt =>
        /\ \A i, j \in 1..Len(LinkedWith) : LinkedWith[i] = LinkedWith[j] => i = j
        /\ Range(LinkedWith) =
             Inherited \cup {"abs/" \o name \o ".lib" : name \in produced_artifact}

\* the root depends on both libraries, libs/two asks for user32 as the root
\* does, and only the build of libs/one produced an artifact
C33_Witness ==
    /\ phase = "done"
    /\ manifests[RootDir].dependencies = <<LibOne, LibTwo>>
    /\ manifests[LibTwo].name = "two"
    /\ produced_artifact = {"one"}
    /\ Len(LinkedWith) = 3

\* C36: acyclic graphs are never rejected as loops.  When no cycle of the
\* dependency graph can be reached from the root, graph resolution does not
\* fail with the loop error, whatever the number of paths that lead to one
\* project.
C36_AcyclicAccepted ==
    ~HasCycle => fatal # "Loop found in dependency graph."

(***************************************************************************)
(* Claims about the C++ options of the dependencies (OptionSpec).          *)
(***************************************************************************)
\* the manifest of a project with the root's cxx_options in place of its own
Adapted(name) ==
    [manifests[projects[name].config_path]
       EXCEPT !.cxx_options = manifests[RootDir].cxx_options]
\* the step builds the dependency name
Builds(name) == name # RootName /\ built' = Append(built, name)
\* build_all runs for the second target of the target all
SecondTarget ==
    /\ cmd.target = "all"
    /\ Len(plan.targets) = 1
    /\ Len(manifests[RootDir].supported_targets) = 2

\* C39: every dependency is built with the root's cxx_options in place of
\* the options its manifest declares, and with every other field of its
\* manifest as declared; adapting a project that was adapted for an earlier
\* target changes nothing.
C39_RootOptionsReplace ==
    /\ [](\A i \in 1..Len(built) :
            built[i] # RootName => projects[built[i]].config = Adapted(built[i]))
    /\ [][\A name \in DOMAIN projects :
            (Builds(name) /\ projects[name].config = Adapted(name))
                => projects' = projects]_vars

\* for the second target, libs/one, whose manifest declares c++14, has been
\* built with the c++20 of the root
C39_Witness ==
    /\ SecondTarget /\ phase = "build"
    /\ manifests[LibOne].cxx_options.standard = "c++14"
    /\ manifests[RootDir].cxx_options.standard = "c++20"
    /\ \E i \in 1..Len(built) : built[i] = "one"
    /\ projects["one"].config.cxx_options.standard = "c++20"

(***************************************************************************)
(* Claims about the scan of src and about the packaging (Spec).            *)
(***************************************************************************)
ScanFailed == result \in {"NoSrcDirectory", "CantReadSrcDirectory"}
\* main's build() is called: a build starts, or fails at once
BuildCalled == pc = "idle" /\ (pc' # "idle" \/ ctx' # ctx \/ result' # result)

\* C34: source directory errors.  A build whose scan of src fails returns
\* NoSrcDirectory when the failure is a not-found error and
\* CantReadSrcDirectory when it is any other I/O error; the call has run no
\* tool, asked for no edit time, collected no object path, and left every
\* file as it was.
C34_SrcDirectoryErrors ==
    /\ [][(BuildCalled /\ src_dir = "NotFound") => result' = "NoSrcDirectory"]_vars
    /\ [][(BuildCalled /\ src_dir = "PermissionDenied")
            => result' = "CantReadSrcDirectory"]_vars
    /\ [][(BuildCalled /\ src_dir = "Ok") => result' = "running"]_vars
    /\ [](ScanFailed =>
            /\ pc = "idle"
            /\ toolLog = <<>> /\ obj_paths = <<>> /\ package_file_paths = <<>>
            /\ file_edit_times = EmptyMap)
    /\ [][ScanFailed' => fs' = fs]_vars

\* after a build that succeeded the src directory was deleted, and the next
\* build has returned NoSrcDirectory with the binary still there
C34_Witness ==
    /\ result = "NoSrcDirectory" /\ src_dir = "NotFound"
    /\ ctx.prevOk
    /\ fs[exe_path] # NoFile /\ fs[SrcA] = NoFile

\* the linker was invoked in the build and exited with status 0
LinkedSuccessfully ==
    \E i \in 1..Len(toolLog) : Linked(i) /\ toolLog[i].ok

\* C35: packaged outputs.  After a build that linked successfully the build
\* has succeeded and the package file paths are the binary and the pdb,
\* plus the assets directory exactly when an assets directory exists.
C35_PackagedOutputs ==
    (BuildEnded /\ LinkedSuccessfully) =>
        /\ result = "Ok"
        /\ package_file_paths =
             <<exe_path, pdb_path>>
               \o (IF assets = "Dir" THEN <<assets_dir_path>> ELSE <<>>)

(***************************************************************************)
(* PathSpec: get_artifact_path applied to every pair of sources of a small *)
(* src tree, for the object, the descriptor and the warning cache.         *)
(***************************************************************************)
warning_cache_path == "warning_cache"
\* the sources SrcPaths::from_root can find: cpp, cxx and cc files of src
\* and of a directory below it
SrcExtensions == {"cpp", "cxx", "cc"}
SrcFiles ==
    {Path(dir, stem, ext) :
        dir \in {src_dir_path, sub_dir_path}, stem \in {"a", "b"},
        ext \in SrcExtensions}

PathInit ==
    /\ \E p, q \in SrcFiles :
          artifact_map = [mapped |-> FALSE, sources |-> <<p, q>>]
    /\ compile_flags = <<>>
    /\ command_line = NotBuilt
    /\ fs = EmptyMap
    /\ file_edit_times = EmptyMap
    /\ BuildIdle
    /\ PredIdle
    /\ TaskIdle
    /\ GraphIdle
    /\ OutputIdle

\* the artifact paths of a source: compile_directory and run_guaranteed
ArtifactPaths(path) ==
    [obj |-> get_artifact_path(path, objs_path, "obj"),
     json |-> get_artifact_path(path, src_deps_path, "json"),
     warnings |-> get_artifact_path(path, warning_cache_path, "warnings")]

MapSources ==
    /\ ~artifact_map.mapped
    /\ artifact_map' = [mapped |-> TRUE, sources |-> artifact_map.sources,
                     paths |-> <<ArtifactPaths(artifact_map.sources[1]),
                                 ArtifactPaths(artifact_map.sources[2])>>]
    /\ UNCHANGED <<compile_flags, command_line>>

PathNext ==
    MapSources /\ UNCHANGED <<fs, file_edit_times, predVars, buildVars,
                              taskVars, graphVars, outputVars>>

PathSpec == PathInit /\ [][PathNext]_vars

\* C37: artifact paths are injective.  Two distinct sources under src are
\* mapped to different object paths, different descriptor paths and
\* different warning-cache paths.
C37_ArtifactPathsInjective ==
    (artifact_map.mapped /\ artifact_map.sources[1] # artifact_map.sources[2]) =>
        /\ artifact_map.paths[1].obj # artifact_map.paths[2].obj
        /\ artifact_map.paths[1].json # artifact_map.paths[2].json
        /\ artifact_map.paths[1].warnings # artifact_map.paths[2].warnings

(***************************************************************************)
(* Claims about the chunks of the parser (PipeSpec).                       *)
(***************************************************************************)
\* a Warning or Error output has a chunk that begins with a header line
WellFormed(output) ==
    output.kind \in {"Warning", "Error"}
        => (output.s # <<>> /\ HeaderKind(output.s[1]) # "None")

\* C38: every Warning or Error chunk the parser emits is non-empty and its
\* first line is a warning, error or fatal error header line: so is every
\* chunk in the output channel and every chunk the consumer has taken the
\* first line of.
C38_ChunksBeginWithHeader ==
    /\ \A i \in 1..Len(emitted) : WellFormed(emitted[i])
    /\ \A i \in 1..Len(output_channel) : WellFormed(output_channel[i])
    /\ \A i \in 1..Len(received) : WellFormed(received[i])

\* the parser has emitted a warning of two lines and the consumer has taken
\* its first line as the key
C38_Witness ==
    /\ \E i \in 1..Len(emitted) :
          emitted[i] = Warning(<<WarningLine, NoteLine>>)
    /\ \E i \in 1..Len(received) :
          received[i].kind = "Warning" /\ Len(received[i].s) = 2
    /\ first_line(<<WarningLine, NoteLine>>) \in unique_compiler_output

(***************************************************************************)
(* Claims about the end of one compile (PipeFairSpec).                     *)
(***************************************************************************)
\* both pipe readers, the parser task and the consumer task have ended
TasksEnded ==
    /\ readers.stdout_done /\ readers.stderr_done
    /\ parser.at # "running"
    /\ run.handle = "done"

\* C40: compile task termination.  With the process closing its pipes and
\* exiting, or not spawned at all, and every step that can be taken
\* eventually taken, run_guaranteed returns, and when it has returned both
\* pipe readers, the parser task and the consumer task have ended with
\* nothing left in a channel.
C40_CompileTerminates ==
    /\ <>run.returned
    /\ [](run.returned =>
            (TasksEnded /\ line_channel = <<>> /\ output_channel = <<>>))

\* a compile that wrote three lines to stdout and one to stderr has
\* returned, its tasks ended
C40_Witness ==
    /\ run.returned /\ TasksEnded
    /\ parser.at = "ended"
    /\ Len(process.stdout) = MaxLines /\ Len(process.stderr) = 1
    /\ readers.stdout = MaxLines /\ readers.stderr = 1

====
